---- MODULE Spec2Model ----
(***************************************************************************)
(* gProfiler: the child-process runner (gprofiler/utils/__init__.py), the  *)
(* perf supervisor (gprofiler/utils/perf_process.py), the Python eBPF      *)
(* profiler (gprofiler/profilers/python_ebpf.py), the external metadata    *)
(* reader (gprofiler/metadata/external_metadata.py), the system metrics    *)
(* monitor (gprofiler/system_metrics.py), the profiler factory             *)
(* (gprofiler/profilers/factory.py), the system profiler                   *)
(* (gprofiler/perf.py), the hardware event validation                      *)
(* (gprofiler/utils/hw_events.py) and the kernel message publisher         *)
(* (gprofiler/kernel_messages.py).                                         *)
(*                                                                         *)
(* Time is the monotonic clock in deciseconds (0.1 s).  Memory is bytes.   *)
(* An Optional value is a sequence: <<>> is None, <<x>> is x.              *)
(*                                                                         *)
(* Specifications:                                                         *)
(*   SpecSignal  the SIGINT/SIGTERM handler and its rate limit             *)
(*   SpecRun     run_process, one step of its code at a time, beside the   *)
(*               child, the stop event and asynchronous exceptions         *)
(*   SpecWait    wait_event and poll_process, one step at a time, beside   *)
(*               the condition, the child and the stop event               *)
(*   SpecPerf    PerfProcess under its caller: start, the health checks    *)
(*               and restarts of every cycle, stop, and the exit handler   *)
(*   SpecRotate  switch_output and wait_and_script, one step at a time,    *)
(*               beside perf writing and removing its rotated files        *)
(*   SpecEbpf    PythonEbpfProfiler: test, start, dumps, the dump timeout  *)
(*               and stop, beside PyPerf                                   *)
(*   SpecMeta    read_external_metadata on a bounded set of files          *)
(*   SpecMutex   grab_gprofiler_mutex called by agents that start and exit *)
(*   SpecMem     the memory poller beside _get_average_memory_utilization  *)
(*   SpecHw      the perfspect poller beside _get_hw_metrics               *)
(*   SpecFactory get_profilers on every configuration                      *)
(*   SpecSnapshot  PythonEbpfProfiler.snapshot on every dump and fault     *)
(*   SpecCycle   the profiling cycles and the emitted last_profile.col     *)
(*   SpecSysProf SystemProfiler's samplers and the merge of their outputs  *)
(*   SpecHwEvents  validate_event_with_fallback on every event and host    *)
(*   SpecKmsg    KernelMessagePublisher beside the kernel log              *)
(*   SpecMonitor SystemMetricsMonitor's start, polling thread and stop     *)
(*   SpecPerfApi PerfProcess with its methods called in any order          *)
(*   SpecPerfCycle  rotations followed by the restarts of a cycle          *)
(***************************************************************************)
EXTENDS Integers, Sequences, FiniteSets, TLC

None == <<>>
Some(x) == <<x>>

\* ----------------------------------------------------------------- bounds
\* The signal clock stops at MaxSignalNow; at most MaxSignals are logged.
MaxSignalNow == 8
MaxSignals == 3
\* run_process is called at most MaxRuns times, the run clock stops at MaxRunNow.
MaxRuns == 1
MaxRunNow == 35
\* wait_event is called at most MaxWaits times, with a timeout up to MaxWaitTimeout.
MaxWaits == 2
MaxWaitTimeout == 2
\* The supervisor spawns at most MaxSpawn children; its clock advances by
\* _RESTART_AFTER_S at a time, up to MaxHours times.
MaxSpawn == 2
MaxHours == 1
\* perf writes at most MaxFiles rotated files; MaxRotations rotations are made.
MaxFiles == 3
MaxRotations == 2

\* ------------------------------------------------------ program constants
\* SIGINT_RATELIMIT = 0.5 s
SIGINT_RATELIMIT == 5
\* process.communicate(timeout=1)
COMMUNICATE_TIMEOUT == 10
\* wait_event(..., interval=0.1)
WAIT_INTERVAL == 1
\* PerfProcess._RESTART_AFTER_S = 3600 s
_RESTART_AFTER_S == 36000
\* PerfProcess._BASELINE_COLLECTION_COUNT
_BASELINE_COLLECTION_COUNT == 3
_PERF_MEMORY_USAGE_THRESHOLD == 512 * 1024 * 1024
_RSS_GROWTH_THRESHOLD == 100 * 1024 * 1024

VARIABLES
    now,               \* time.monotonic()
    stop_event,        \* the shared threading.Event
    _last_signal_ts,   \* utils._last_signal_ts
    sigLog,            \* history: every signal handled, <<ts, sig, raised>>
    procs,             \* the children spawned so far; a pid is an index
    _processes,        \* utils._processes, the registry (a list of pids)
    platform,          \* "linux" or "windows"
    rp,                \* the run_process call in progress
    we,                \* the wait_event call in progress
    cond,              \* what wait_event's condition() returns (a file exists)
    waits,             \* wait_event calls made
    perf,              \* the PerfProcess object's attributes
    orch,              \* where PerfProcess's caller is in the supervisor's life
    lastOp,            \* history: the last PerfProcess operation and what it did
    readings,          \* history: the first RSS readings of the owned child
    files,             \* the files matching <output_path>.*
    rot,               \* the rotation (switch_output, wait_and_script) in progress
    ebpf,              \* the PythonEbpfProfiler object and its PyPerf child
    meta,              \* the read_external_metadata call: its inputs and result
    mutex,             \* the abstract socket of grab_gprofiler_mutex and the agents
    mon,               \* the SystemMetricsMonitor, its poller threads and its reader
    fac,               \* the get_profilers call: its inputs and what it built
    snap,              \* the PythonEbpfProfiler.snapshot call over the parsed PIDs
    gprofiler,         \* the agent's profiling cycles and its output directory
    sysprof,           \* the SystemProfiler, its perf runs and the merge
    hwev,              \* the validate_event_with_fallback call and its perf tests
    kmsg               \* the kernel message reader, publisher and subscribers

sigVars == <<_last_signal_ts, sigLog>>
runVars == <<rp, platform>>
waitVars == <<we, cond, waits>>
perfVars == <<perf, orch, lastOp, readings>>
rotVars == <<files, rot>>
ebpfVars == <<ebpf>>
metaVars == <<meta>>
agentVars == <<mutex, mon, fac, snap, gprofiler, sysprof, hwev, kmsg>>
vars == <<now, stop_event, _last_signal_ts, sigLog, procs, _processes, platform, rp,
          we, cond, waits, perf, orch, lastOp, readings, files, rot, ebpf, meta,
          mutex, mon, fac, snap, gprofiler, sysprof, hwev, kmsg>>

\* =============================================================== children
\* A child process: rc is its exit status (None while it runs), hung says it
\* never exits by itself, reaped says Popen has collected the exit status
\* (Popen.returncode is set), log lists what the agent did to it, in order.
NewChild(hung) == [rc |-> None, hung |-> hung, reaped |-> FALSE, log |-> <<>>]

Running(c) == c.rc = None

IdleChildren == procs = <<>> /\ _processes = <<>>

\* The parts of the state a specification does not exercise stay as
\* constructed.
IdleSignal == _last_signal_ts = None /\ sigLog = <<>>
IdleRun == platform = "linux" /\ rp = [pc |-> "idle"]
IdleWait == we = [pc |-> "idle"] /\ cond = FALSE /\ waits = 0

\* PerfProcess.__init__
NewPerfProcess ==
    [_process |-> None, _start_time |-> 0, start_time |-> None,
     _baseline_rss |-> None, _collected_rss_values |-> <<>>]

NoOp == [name |-> "none", log |-> <<>>, exc |-> None]
IdlePerf == perf = NewPerfProcess /\ orch = "new" /\ lastOp = NoOp /\ readings = <<>>
IdleRotate == files = {} /\ rot = [pc |-> "idle"]
IdleEbpf == ebpf = [pc |-> "idle"]
IdleMeta == meta = [pc |-> "idle"]
IdleMutex == mutex = [pc |-> "idle"]
IdleMon == mon = [pc |-> "idle"]
IdleFactory == fac = [pc |-> "idle"]
IdleSnapshot == snap = [pc |-> "idle"]
IdleCycle == gprofiler = [pc |-> "idle"]
IdleSysProf == sysprof = [pc |-> "idle"]
IdleHwEvents == hwev = [pc |-> "idle"]
IdleKmsg == kmsg = [pc |-> "idle"]
IdleTools == IdleHwEvents /\ IdleKmsg
IdleAgent ==
    /\ IdleMutex /\ IdleMon /\ IdleFactory /\ IdleSnapshot /\ IdleCycle /\ IdleSysProf
    /\ IdleTools
IdleOthers == IdleRotate /\ IdleEbpf /\ IdleMeta /\ IdleAgent

\* start_process: Popen(...) and _processes.append(process).
StartProcessUnregistered(ps, reg, hung) ==
    [procs |-> Append(ps, NewChild(hung)), reg |-> reg, pid |-> Len(ps) + 1]

start_process(ps, reg, hung) ==
    [procs |-> Append(ps, NewChild(hung)),
     reg   |-> Append(reg, Len(ps) + 1),
     pid   |-> Len(ps) + 1]

\* The exit status a signal leaves a running child with.  SIGKILL cannot be
\* caught; SIGTERM is TerminateProcess on Windows and is handled by exiting
\* elsewhere, unless the child is hung (stopped), where it stays pending.
SignalEffect(c, sig) ==
    IF ~Running(c) THEN c.rc
    ELSE IF sig = "SIGKILL" THEN Some(-9)
    ELSE IF sig = "SIGTERM" /\ (platform = "windows" \/ ~c.hung) THEN Some(-15)
    ELSE None

\* Popen.send_signal / kill / terminate; a child that has exited is left as
\* it is.
send_signal(c, sig) == [c EXCEPT !.rc = SignalEffect(c, sig), !.log = Append(@, sig)]

\* reap_process: communicate() returns once the child has exited.
CanReap(c) == ~Running(c)
reap_process(c) == [c EXCEPT !.reaped = TRUE, !.log = Append(@, "reap")]

\* ================================================================ signals
Signals == {"SIGINT", "SIGTERM"}

\* A sliding window: a swallowed signal restarts the window too.
HandlerSlidingWindow(last, ts) ==
    [raised |-> last = None \/ ts > last[1] + SIGINT_RATELIMIT,
     last   |-> Some(ts)]

\* _sigint_handler: whether KeyboardInterrupt is raised, and _last_signal_ts
\* after the handler.
_sigint_handler(last, ts) ==
    IF last = None \/ ts > last[1] + SIGINT_RATELIMIT
    THEN [raised |-> TRUE, last |-> Some(ts)]
    ELSE [raised |-> FALSE, last |-> last]

\* setup_signals installs the same handler for both signals.
SignalArrives(sig) ==
    /\ Len(sigLog) < MaxSignals
    /\ LET ts == now
           h  == _sigint_handler(_last_signal_ts, ts)
       IN /\ _last_signal_ts' = h.last
          /\ sigLog' = Append(sigLog, [ts |-> ts, sig |-> sig, raised |-> h.raised])
    /\ UNCHANGED <<now, stop_event, procs, _processes, runVars, waitVars, perfVars, rotVars, ebpfVars, metaVars, agentVars>>

SignalTick ==
    /\ now < MaxSignalNow
    /\ now' = now + 1
    /\ UNCHANGED <<sigVars, stop_event, procs, _processes, runVars, waitVars, perfVars, rotVars, ebpfVars, metaVars, agentVars>>

InitSignal ==
    /\ now = 0
    /\ _last_signal_ts = None
    /\ sigLog = <<>>
    /\ stop_event = FALSE
    /\ IdleChildren /\ IdleRun /\ IdleWait /\ IdlePerf /\ IdleOthers

NextSignal ==
    \/ SignalTick
    \/ \E sig \in Signals : SignalArrives(sig)

SpecSignal == InitSignal /\ [][NextSignal]_vars

\* The timestamps of the signals delivered (KeyboardInterrupt raised) before
\* the i-th one.
DeliveredBefore(i) == {sigLog[j].ts : j \in {k \in 1..(i - 1) : sigLog[k].raised}}

\* C2: a signal (SIGINT or SIGTERM alike) raises KeyboardInterrupt exactly
\* when no signal was delivered in the 0.5 s before it; a signal within 0.5 s
\* of the last delivered one is swallowed; the window is measured from the
\* last delivered signal, which a swallowed signal does not move.
C2_RateLimit ==
    /\ \A i \in 1..Len(sigLog) :
          sigLog[i].raised <=>
              \A t \in DeliveredBefore(i) : sigLog[i].ts - t > SIGINT_RATELIMIT
    /\ LET d == {k \in 1..Len(sigLog) : sigLog[k].raised}
       IN _last_signal_ts =
              IF d = {} THEN None
              ELSE Some(sigLog[CHOOSE k \in d : \A m \in d : m <= k].ts)

\* A SIGINT is delivered, a SIGTERM 0.3 s later is swallowed, and a third
\* signal more than 0.5 s after the first but within 0.5 s of the swallowed
\* one is delivered.
C2_Witness ==
    /\ Len(sigLog) >= 3
    /\ sigLog[1].raised /\ sigLog[1].sig = "SIGINT"
    /\ ~sigLog[2].raised /\ sigLog[2].sig = "SIGTERM"
    /\ sigLog[2].ts - sigLog[1].ts = 3
    /\ sigLog[3].raised
    /\ sigLog[3].ts - sigLog[2].ts <= SIGINT_RATELIMIT
    /\ sigLog[3].ts - sigLog[1].ts > SIGINT_RATELIMIT

\* ============================================================= run_process
\* The calls of run_process in the source, by their arguments.
RunSites ==
    { [name |-> "SystemProfiler.record", stop |-> TRUE,  timeout |-> FALSE, check |-> TRUE],
      [name |-> "PerfProcess.inject",    stop |-> FALSE, timeout |-> FALSE, check |-> TRUE],
      [name |-> "PerfProcess.script",    stop |-> FALSE, timeout |-> FALSE, check |-> TRUE],
      [name |-> "dotnet.collect",        stop |-> TRUE,  timeout |-> TRUE,  check |-> TRUE],
      [name |-> "pgrep_maps",            stop |-> FALSE, timeout |-> FALSE, check |-> FALSE] }

RunTimeouts == {COMMUNICATE_TIMEOUT, 2 * COMMUNICATE_TIMEOUT}
ExitCodes == {0, 1}

\* kill_signal's default: SIGTERM on Windows, SIGKILL elsewhere.
DefaultKillSignal == IF platform = "windows" THEN "SIGTERM" ELSE "SIGKILL"

InWait == {"communicate", "poll", "checkstop", "checkdeadline"}

\* run_process up to its wait: start_process, then communicate() without a
\* timeout when no stop_event is given, the polling loop otherwise.
RunProcessCall(site, timeout, hung) ==
    /\ rp.pc \in {"idle", "done"}
    /\ Len(procs) < MaxRuns
    /\ LET sp == start_process(procs, _processes, hung)
       IN /\ procs' = sp.procs
          /\ _processes' = sp.reg
          /\ rp' = [pc |-> IF site.stop THEN "poll" ELSE "communicate",
                    pid |-> sp.pid,
                    site |-> site.name,
                    stop |-> site.stop,
                    timeout |-> timeout,
                    check |-> site.check,
                    kill_signal |-> DefaultKillSignal,
                    end_time |-> IF timeout # None THEN Some(now + timeout[1]) ELSE None,
                    reraise |-> None,
                    polls |-> 0,
                    entered |-> now,
                    sawStop |-> FALSE,
                    sawLate |-> FALSE,
                    result |-> "none"]
    /\ UNCHANGED <<now, stop_event, platform, sigVars, waitVars, perfVars, rotVars, ebpfVars, metaVars, agentVars>>

\* communicate() (with or without timeout) returns: the child has exited and
\* its status is collected.
CommunicateReturns ==
    /\ rp.pc \in {"communicate", "poll"}
    /\ CanReap(procs[rp.pid])
    /\ procs' = [procs EXCEPT ![rp.pid] = reap_process(@)]
    /\ rp' = [rp EXCEPT !.pc = "after"]
    /\ UNCHANGED <<now, stop_event, _processes, platform, sigVars, waitVars, perfVars, rotVars, ebpfVars, metaVars, agentVars>>

\* communicate(timeout=1) raises TimeoutExpired: a second (or a little more)
\* has passed and the child still runs.
CommunicateTimesOut ==
    /\ rp.pc = "poll"
    /\ Running(procs[rp.pid])
    /\ \E late \in {0, 1} :
          /\ now + COMMUNICATE_TIMEOUT + late <= MaxRunNow
          /\ now' = now + COMMUNICATE_TIMEOUT + late
    /\ rp' = [rp EXCEPT !.pc = "checkstop", !.polls = @ + 1]
    /\ UNCHANGED <<stop_event, procs, _processes, platform, sigVars, waitVars, perfVars, rotVars, ebpfVars, metaVars, agentVars>>

Late(r, t) == r.end_time # None /\ t > r.end_time[1]

\* The deadline is looked at before the stop event.
CheckStopAfterDeadline(r, stop, t) ==
    IF Late(r, t)
    THEN [r EXCEPT !.pc = "kill", !.reraise = Some("CalledProcessTimeoutError"),
                   !.sawStop = stop, !.sawLate = TRUE]
    ELSE IF stop
    THEN [r EXCEPT !.pc = "kill", !.reraise = Some("ProcessStoppedException"),
                   !.sawStop = TRUE, !.sawLate = FALSE]
    ELSE [r EXCEPT !.pc = "checkdeadline", !.sawStop = FALSE, !.sawLate = FALSE]

\* if stop_event.is_set(): raise ProcessStoppedException
\* (sawStop, sawLate: what holds at this poll; the code reads only the first).
CheckStopStep(r, stop, t) ==
    IF stop
    THEN [r EXCEPT !.pc = "kill", !.reraise = Some("ProcessStoppedException"),
                   !.sawStop = TRUE, !.sawLate = Late(r, t)]
    ELSE [r EXCEPT !.pc = "checkdeadline", !.sawStop = FALSE, !.sawLate = Late(r, t)]

CheckStop ==
    /\ rp.pc = "checkstop"
    /\ rp' = CheckStopStep(rp, stop_event, now)
    /\ UNCHANGED <<now, stop_event, procs, _processes, platform, sigVars, waitVars, perfVars, rotVars, ebpfVars, metaVars, agentVars>>

\* if end_time is not None and time.monotonic() > end_time: raise
CheckDeadlineStep(r, t) ==
    IF Late(r, t)
    THEN [r EXCEPT !.pc = "kill", !.reraise = Some("CalledProcessTimeoutError"),
                   !.sawLate = TRUE]
    ELSE [r EXCEPT !.pc = "poll", !.sawLate = FALSE]

CheckDeadline ==
    /\ rp.pc = "checkdeadline"
    /\ rp' = CheckDeadlineStep(rp, now)
    /\ UNCHANGED <<now, stop_event, procs, _processes, platform, sigVars, waitVars, perfVars, rotVars, ebpfVars, metaVars, agentVars>>

\* Any other exception inside the try (a KeyboardInterrupt raised by the
\* signal handler while the main thread waits).
RunInterrupted ==
    /\ rp.pc \in InWait
    /\ rp' = [rp EXCEPT !.pc = "kill", !.reraise = Some("KeyboardInterrupt")]
    /\ UNCHANGED <<now, stop_event, procs, _processes, platform, sigVars, waitVars, perfVars, rotVars, ebpfVars, metaVars, agentVars>>

\* The handler reaps without sending the signal.
KillStepWithoutSignal(c, sig) == c

\* _kill_and_reap_process, first half: process.send_signal(kill_signal).
KillStep(c, sig) == send_signal(c, sig)

RunKill ==
    /\ rp.pc = "kill"
    /\ procs' = [procs EXCEPT ![rp.pid] = KillStep(@, rp.kill_signal)]
    /\ rp' = [rp EXCEPT !.pc = "reap"]
    /\ UNCHANGED <<now, stop_event, _processes, platform, sigVars, waitVars, perfVars, rotVars, ebpfVars, metaVars, agentVars>>

\* _kill_and_reap_process, second half: reap_process(process).
RunReap ==
    /\ rp.pc = "reap"
    /\ CanReap(procs[rp.pid])
    /\ procs' = [procs EXCEPT ![rp.pid] = reap_process(@)]
    /\ rp' = [rp EXCEPT !.pc = "after"]
    /\ UNCHANGED <<now, stop_event, _processes, platform, sigVars, waitVars, perfVars, rotVars, ebpfVars, metaVars, agentVars>>

\* What run_process ends with: the saved exception, CalledProcessError for a
\* checked non-zero exit, the CompletedProcess otherwise.
RunResult(r, retcode) ==
    IF r.reraise # None THEN r.reraise[1]
    ELSE IF r.check /\ retcode # 0 THEN "CalledProcessError"
    ELSE "returned"

\* retcode = process.poll(), the end of the with block, the result.
RunFinish ==
    /\ rp.pc = "after"
    /\ rp' = [rp EXCEPT !.pc = "done", !.result = RunResult(rp, procs[rp.pid].rc[1])]
    /\ UNCHANGED <<now, stop_event, procs, _processes, platform, sigVars, waitVars, perfVars, rotVars, ebpfVars, metaVars, agentVars>>

\* The environment: the child exits by itself; another thread sets the stop
\* event.
ChildExits(pid, code) ==
    /\ pid \in 1..Len(procs)
    /\ Running(procs[pid]) /\ ~procs[pid].hung
    /\ procs' = [procs EXCEPT ![pid].rc = Some(code)]
    /\ UNCHANGED <<now, stop_event, _processes, runVars, sigVars, waitVars, perfVars, rotVars, ebpfVars, metaVars, agentVars>>

SetStop ==
    /\ ~stop_event
    /\ stop_event' = TRUE
    /\ UNCHANGED <<now, procs, _processes, runVars, sigVars, waitVars, perfVars, rotVars, ebpfVars, metaVars, agentVars>>

InitRun ==
    /\ now = 0
    /\ stop_event = FALSE
    /\ IdleSignal
    /\ IdleChildren
    /\ platform \in {"linux", "windows"}
    /\ rp = [pc |-> "idle"]
    /\ IdleWait /\ IdlePerf /\ IdleOthers

NextRun ==
    \/ \E site \in RunSites, hung \in BOOLEAN :
          \E t \in (IF site.timeout THEN {Some(x) : x \in RunTimeouts} ELSE {None}) :
              RunProcessCall(site, t, hung)
    \/ CommunicateReturns
    \/ CommunicateTimesOut
    \/ CheckStop
    \/ CheckDeadline
    \/ RunInterrupted
    \/ RunKill
    \/ RunReap
    \/ RunFinish
    \/ \E pid \in 1..MaxRuns, code \in ExitCodes : ChildExits(pid, code)
    \/ SetStop

SpecRun == InitRun /\ [][NextRun]_vars

RunChild == procs[rp.pid]
Left == {"kill", "reap", "after", "done"}

C4_PollOutcome ==
    rp.pc \in Left /\ rp.stop =>
        /\ (rp.reraise = Some("ProcessStoppedException")) <=> rp.sawStop
        /\ rp.reraise = Some("CalledProcessTimeoutError") => ~rp.sawStop /\ rp.sawLate
        /\ ~rp.sawStop /\ rp.sawLate =>
              rp.reraise \in {Some("CalledProcessTimeoutError"), Some("KeyboardInterrupt")}
        /\ rp.reraise # None => rp.polls >= 1 \/ rp.reraise = Some("KeyboardInterrupt")
        /\ now - rp.entered >= rp.polls * COMMUNICATE_TIMEOUT
        /\ rp.reraise = None => RunChild.log = <<"reap">>
        /\ rp.pc = "done" =>
              rp.result = IF rp.reraise # None THEN rp.reraise[1]
                          ELSE IF rp.check /\ RunChild.rc # Some(0) THEN "CalledProcessError"
                          ELSE "returned"

\* The stop event is set and the timeout has elapsed at the same poll:
\* ProcessStoppedException is raised.
C4_Witness ==
    /\ rp.pc = "done"
    /\ rp.stop /\ rp.timeout # None
    /\ rp.sawStop /\ rp.sawLate
    /\ rp.result = "ProcessStoppedException"

PerfWaitSites == {"SystemProfiler.record", "PerfProcess.inject", "PerfProcess.script"}

\* C6: every wait on a child made by the perf supervisor and the system
\* profiler takes a timeout and is interrupted by the stop event, so none of
\* them waits on a hung child without both.
C6_WaitsBounded ==
    rp.pc \in InWait /\ rp.site \in PerfWaitSites /\ RunChild.hung =>
        rp.stop /\ rp.timeout # None

\* ============================================================== wait_event
WaitTimeouts == 0..MaxWaitTimeout

\* condition(): the file exists, or for poll_process the child has exited
\* (process.poll() is not None).
ConditionHolds(w) ==
    IF w.kind = "poll_process" THEN ~Running(procs[w.pid]) ELSE cond

\* wait_event(timeout, stop_event, condition): end_time is computed.
WaitEventCall(timeout) ==
    /\ we.pc \in {"idle", "done"}
    /\ waits < MaxWaits
    /\ waits' = waits + 1
    /\ we' = [pc |-> "cond", kind |-> "wait_event", pid |-> 0,
              timeout |-> timeout, end_time |-> now + timeout,
              iterations |-> 0, condFirst |-> cond, stopFirst |-> stop_event,
              sawStop |-> FALSE, stopAtEnd |-> FALSE, result |-> "none"]
    /\ UNCHANGED <<now, stop_event, procs, _processes, cond, runVars, sigVars, perfVars, rotVars, ebpfVars, metaVars, agentVars>>

\* start_process, then poll_process(process, timeout, stop_event).
PollProcessCall(timeout, hung) ==
    /\ we.pc \in {"idle", "done"}
    /\ waits < MaxWaits
    /\ waits' = waits + 1
    /\ LET sp == start_process(procs, _processes, hung)
       IN /\ procs' = sp.procs
          /\ _processes' = sp.reg
          /\ we' = [pc |-> "cond", kind |-> "poll_process", pid |-> sp.pid,
                    timeout |-> timeout, end_time |-> now + timeout,
                    iterations |-> 0, condFirst |-> FALSE, stopFirst |-> stop_event,
                    sawStop |-> FALSE, stopAtEnd |-> FALSE, result |-> "none"]
    /\ UNCHANGED <<now, stop_event, cond, runVars, sigVars, perfVars, rotVars, ebpfVars, metaVars, agentVars>>

\* if condition(): break
WaitCondition ==
    /\ we.pc = "cond"
    /\ IF ConditionHolds(we)
       THEN we' = [we EXCEPT !.pc = "done", !.result = "returned",
                             !.stopAtEnd = stop_event]
       ELSE we' = [we EXCEPT !.pc = "stopwait", !.iterations = @ + 1]
    /\ UNCHANGED <<now, stop_event, procs, _processes, cond, waits, runVars, sigVars, perfVars, rotVars, ebpfVars, metaVars, agentVars>>

\* except StopEventSetException: process.kill(); raise   (poll_process only)
OnStop(c, kind) == IF kind = "poll_process" THEN send_signal(c, "SIGKILL") ELSE c

\* stop_event.wait(interval) returns True: raise StopEventSetException.
WaitStopSet ==
    /\ we.pc = "stopwait"
    /\ stop_event
    /\ we' = [we EXCEPT !.pc = "done", !.result = "StopEventSetException",
                        !.sawStop = TRUE, !.stopAtEnd = TRUE]
    /\ procs' = IF we.pid = 0 THEN procs
                ELSE [procs EXCEPT ![we.pid] = OnStop(@, we.kind)]
    /\ UNCHANGED <<now, stop_event, _processes, cond, waits, runVars, sigVars, perfVars, rotVars, ebpfVars, metaVars, agentVars>>

\* stop_event.wait(interval) returns False: the interval has passed.
WaitIntervalPasses ==
    /\ we.pc = "stopwait"
    /\ ~stop_event
    /\ now' = now + WAIT_INTERVAL
    /\ we' = [we EXCEPT !.pc = "deadline", !.sawStop = FALSE]
    /\ UNCHANGED <<stop_event, procs, _processes, cond, waits, runVars, sigVars, perfVars, rotVars, ebpfVars, metaVars, agentVars>>

\* if time.monotonic() > end_time: raise TimeoutError()
WaitDeadline ==
    /\ we.pc = "deadline"
    /\ IF now > we.end_time
       THEN we' = [we EXCEPT !.pc = "done", !.result = "TimeoutError",
                             !.stopAtEnd = stop_event]
       ELSE we' = [we EXCEPT !.pc = "cond"]
    /\ UNCHANGED <<now, stop_event, procs, _processes, cond, waits, runVars, sigVars, perfVars, rotVars, ebpfVars, metaVars, agentVars>>

\* The environment: the awaited file appears.
ConditionTurnsTrue ==
    /\ ~cond
    /\ cond' = TRUE
    /\ UNCHANGED <<now, stop_event, procs, _processes, we, waits, runVars, sigVars, perfVars, rotVars, ebpfVars, metaVars, agentVars>>

InitWait ==
    /\ now = 0
    /\ stop_event = FALSE
    /\ IdleSignal /\ IdleChildren /\ IdleRun
    /\ we = [pc |-> "idle"] /\ cond \in BOOLEAN /\ waits = 0
    /\ IdlePerf
    /\ IdleOthers

NextWait ==
    \/ \E t \in WaitTimeouts : WaitEventCall(t)
    \/ \E t \in WaitTimeouts, hung \in BOOLEAN : PollProcessCall(t, hung)
    \/ WaitCondition
    \/ WaitStopSet
    \/ WaitIntervalPasses
    \/ WaitDeadline
    \/ ConditionTurnsTrue
    \/ \E pid \in 1..MaxWaits, code \in ExitCodes : ChildExits(pid, code)
    \/ SetStop

SpecWait == InitWait /\ [][NextWait]_vars

\* C5: a wait_event in progress when the stop event becomes set, its
\* condition still false, raises StopEventSetException and never
\* TimeoutError; a wait whose condition already holds returns normally, also
\* with the stop event set or a timeout of 0; poll_process kills the child
\* before it re-raises the stop exception.
C5_StopNeverTimeout ==
    we.pc = "done" =>
        /\ we.result = "TimeoutError" => ~we.stopAtEnd
        /\ we.kind = "wait_event" /\ we.condFirst => we.result = "returned"
        /\ we.kind = "poll_process" /\ we.result = "StopEventSetException" =>
              procs[we.pid].log = <<"SIGKILL">>

\* What holds of wait_event: TimeoutError is raised only by an iteration whose
\* own stop check found the event unset, and StopEventSetException only by a
\* stop check that found it set while the condition was false.
WaitEventOrder ==
    we.pc = "done" =>
        /\ we.result = "TimeoutError" => ~we.sawStop /\ we.iterations >= 1
        /\ we.result = "StopEventSetException" => we.sawStop /\ we.stopAtEnd
        /\ we.kind = "wait_event" /\ we.condFirst => we.result = "returned"
        /\ we.kind = "poll_process" /\ we.result = "StopEventSetException" =>
              procs[we.pid].log = <<"SIGKILL">>

\* ============================================================= PerfProcess
\* RSS readings psutil may return for a running perf; a child that has exited
\* and is not reaped reads 0.
MiB == 1024 * 1024
RssValues == {412 * MiB, 512 * MiB, 512 * MiB + 1}

RECURSIVE Sum(_)
Sum(q) == IF q = <<>> THEN 0 ELSE Head(q) + Sum(Tail(q))

\* A PerfProcess operation works on the object, the children and the
\* registry; log lists its steps in order, exc is the exception it ends
\* with ("Blocked": it never returns), check what a health check computed.
World ==
    [perf |-> perf, procs |-> procs, reg |-> _processes,
     log |-> <<>>, exc |-> None, check |-> None]

Note(W, e) == [W EXCEPT !.log = Append(@, e)]

\* cleanup_process_reference(process): the process leaves the registry.
cleanup_process_reference(W, pid) ==
    Note([W EXCEPT !.reg = SelectSeq(@, LAMBDA q : q # pid)], "cleanup")

\* A start that raises TimeoutError without killing the child.
StartWithoutKill(W, outcome, hung, t) ==
    LET sp == start_process(W.procs, W.reg, hung)
        S  == Note([W EXCEPT !.procs = sp.procs, !.reg = sp.reg], "spawn")
    IN CASE outcome = "appeared" ->
              Note([S EXCEPT !.perf.start_time = Some(t),
                             !.perf._process = Some(sp.pid)], "own")
         [] outcome = "timeout" -> [S EXCEPT !.exc = Some("TimeoutError")]
         [] outcome = "stopped" -> [S EXCEPT !.exc = Some("StopEventSetException")]

\* PerfProcess.start.  outcome is how the wait for the output file ends:
\* "appeared", "timeout" (TimeoutError) or "stopped" (StopEventSetException).
PerfStart(W, outcome, hung, t) ==
    LET sp == start_process(W.procs, W.reg, hung)
        S  == Note([W EXCEPT !.procs = sp.procs, !.reg = sp.reg], "spawn")
    IN CASE outcome = "appeared" ->
              Note([S EXCEPT !.perf.start_time = Some(t),
                             !.perf._process = Some(sp.pid)], "own")
         [] outcome = "timeout" ->
              LET K == Note([S EXCEPT !.procs[sp.pid] = send_signal(@, "SIGKILL")], "kill")
              IN [cleanup_process_reference(K, sp.pid) EXCEPT !.exc = Some("TimeoutError")]
         [] outcome = "stopped" ->
              [S EXCEPT !.exc = Some("StopEventSetException")]

\* PerfProcess.stop: terminate(), reap_process (which returns once the child
\* has exited), cleanup_process_reference, self._process = None.
PerfStop(W) ==
    IF W.perf._process = None THEN W
    ELSE LET pid == W.perf._process[1]
             T   == Note([W EXCEPT !.procs[pid] = send_signal(@, "SIGTERM")], "terminate")
         IN IF ~CanReap(T.procs[pid])
            THEN [T EXCEPT !.exc = Some("Blocked")]
            ELSE LET R == Note([T EXCEPT !.procs[pid] = reap_process(@)], "reap")
                 IN [cleanup_process_reference(R, pid) EXCEPT !.perf._process = None]

\* PerfProcess._clear_baseline_data
_clear_baseline_data(W) ==
    Note([W EXCEPT !.perf._baseline_rss = None,
                   !.perf._collected_rss_values = <<>>], "clear")

\* The new child is spawned before the old one is stopped.
RestartSpawnFirst(W, outcome, hung, t) ==
    LET S == PerfStart(W, outcome, hung, t)
        old == [S EXCEPT !.perf._process = W.perf._process]
        T == _clear_baseline_data(PerfStop(old))
    IN [T EXCEPT !.perf._process = S.perf._process]

\* PerfProcess.restart: stop(), _clear_baseline_data(), start().
PerfRestart(W, outcome, hung, t) ==
    LET A == PerfStop(W)
    IN IF A.exc # None THEN A
       ELSE PerfStart(_clear_baseline_data(A), outcome, hung, t)

\* PerfProcess.is_running
is_running(W) == W.perf._process # None /\ Running(W.procs[W.perf._process[1]])

\* A restart_if_not_running that restarts without looking.
RestartAlways(W, outcome, hung, t) == PerfRestart(W, outcome, hung, t)

\* PerfProcess.restart_if_not_running
restart_if_not_running(W, outcome, hung, t) ==
    IF ~is_running(W) THEN PerfRestart(W, outcome, hung, t) ELSE W

\* The growth test with >= in place of >.
GrowthAtThreshold(rss, baseline) == rss - baseline >= _RSS_GROWTH_THRESHOLD

\* should_restart_growth_based
ShouldRestartGrowth(rss, baseline) == rss - baseline > _RSS_GROWTH_THRESHOLD

\* should_restart_time_based
ShouldRestartTime(time_elapsed, rss) ==
    time_elapsed >= _RESTART_AFTER_S /\ rss >= _PERF_MEMORY_USAGE_THRESHOLD

\* The baseline is taken from the first two readings.
BaselineAfterTwo(collected) ==
    IF Len(collected) < 2 THEN None ELSE Some(Sum(collected) \div Len(collected))

\* The baseline once enough readings are collected, None before.
BaselineOf(collected) ==
    IF Len(collected) < _BASELINE_COLLECTION_COUNT THEN None
    ELSE Some(Sum(collected) \div Len(collected))

\* PerfProcess.restart_if_rss_exceeded, reading current_rss = rss at time t.
restart_if_rss_exceeded(W, rss, outcome, hung, t) ==
    LET P == W.perf
        collecting == P._baseline_rss = None
        collected == IF collecting THEN Append(P._collected_rss_values, rss)
                     ELSE P._collected_rss_values
        baseline == IF collecting THEN BaselineOf(collected) ELSE P._baseline_rss
        W1 == [W EXCEPT !.perf._collected_rss_values = collected,
                        !.perf._baseline_rss = baseline]
    IN IF baseline = None
       THEN [W1 EXCEPT !.check = Some([rss |-> rss, evaluated |-> FALSE])]
       ELSE LET time_elapsed == t - P._start_time
                time_based == ShouldRestartTime(time_elapsed, rss)
                growth_based == ShouldRestartGrowth(rss, baseline[1])
                W2 == [W1 EXCEPT !.check =
                          Some([rss |-> rss, evaluated |-> TRUE, baseline |-> baseline[1],
                                time_based |-> time_based, growth_based |-> growth_based,
                                age |-> t - P.start_time[1]])]
            IN IF time_based \/ growth_based
               THEN PerfRestart(_clear_baseline_data(W2), outcome, hung, t)
               ELSE W2

\* _exit_handler: process.kill() for every process of the registry.
RECURSIVE KillAll(_, _)
KillAll(ps, reg) ==
    IF reg = <<>> THEN ps
    ELSE KillAll([ps EXCEPT ![Head(reg)] = send_signal(@, "SIGKILL")], Tail(reg))

_exit_handler(ps, reg) == KillAll(ps, reg)

\* ------------------------------------------------ PerfProcess's caller
\* The caller starts the supervisor once, then in every cycle restarts it when
\* it is not running and checks its memory, and stops it at the end; an
\* operation that never returns blocks it, one that raises the stop exception
\* ends the cycles.
AfterOp(name, W) ==
    CASE W.exc = Some("Blocked") -> "blocked"
      [] W.exc = Some("StopEventSetException") -> "ending"
      [] name = "start" /\ W.exc # None -> "ending"
      [] name = "stop" -> "ending"
      [] OTHER -> "running"

StartOutcomes == {"appeared", "timeout"} \cup (IF stop_event THEN {"stopped"} ELSE {})

\* History: the first _BASELINE_COLLECTION_COUNT readings taken of the owned
\* child, once rss is read, followed by a 0 when more were taken.
FirstReadings(rss) ==
    IF Len(readings) < _BASELINE_COLLECTION_COUNT THEN Append(readings, rss)
    ELSE IF Len(readings) = _BASELINE_COLLECTION_COUNT THEN Append(readings, 0)
    ELSE readings

\* The state after an operation that ends in world W; lastOp records the
\* operation: its steps, its exception, the child owned before it, and for a
\* health check which reading of that child it took (n) and the readings.
Commit(name, W) ==
    /\ Len(W.procs) <= MaxSpawn
    /\ perf' = W.perf
    /\ procs' = W.procs
    /\ _processes' = W.reg
    /\ lastOp' = [name |-> name, log |-> W.log, exc |-> W.exc, check |-> W.check,
                  owned |-> perf._process,
                  n |-> IF W.check = None THEN 0 ELSE Len(readings) + 1,
                  first |-> IF W.check = None THEN <<>> ELSE FirstReadings(W.check[1].rss)]
    /\ orch' = AfterOp(name, W)
    /\ readings' = IF W.perf._process # perf._process THEN <<>>
                   ELSE IF W.check # None THEN FirstReadings(W.check[1].rss)
                   ELSE readings
    /\ UNCHANGED <<now, stop_event, runVars, sigVars, waitVars, rotVars, ebpfVars, metaVars, agentVars>>

Start ==
    /\ orch = "new"
    /\ \E outcome \in StartOutcomes, hung \in BOOLEAN :
          Commit("start", PerfStart(World, outcome, hung, now))

Stop ==
    /\ orch = "running" \/ (orch = "ending" /\ perf._process # None)
    /\ Commit("stop", PerfStop(World))

Restart ==
    /\ orch = "running"
    /\ \E outcome \in StartOutcomes, hung \in BOOLEAN :
          Commit("restart", PerfRestart(World, outcome, hung, now))

RestartIfNotRunning ==
    /\ orch = "running"
    /\ \E outcome \in StartOutcomes, hung \in BOOLEAN :
          Commit("restart_if_not_running",
                 restart_if_not_running(World, outcome, hung, now))

\* assert self._process is not None; current_rss = Process(pid).memory_info().rss
RestartIfRssExceeded ==
    /\ orch = "running"
    /\ perf._process # None
    /\ \E rss \in (IF Running(procs[perf._process[1]]) THEN RssValues ELSE {0}),
          outcome \in StartOutcomes, hung \in BOOLEAN :
          Commit("restart_if_rss_exceeded",
                 restart_if_rss_exceeded(World, rss, outcome, hung, now))

\* The agent terminates: atexit runs _exit_handler.
ExitHandler ==
    /\ orch # "exited"
    /\ orch' = "exited"
    /\ procs' = _exit_handler(procs, _processes)
    /\ UNCHANGED <<now, stop_event, _processes, perf, lastOp, readings,
                   runVars, sigVars, waitVars, rotVars, ebpfVars, metaVars, agentVars>>

PerfTick ==
    /\ orch # "exited"
    /\ now + _RESTART_AFTER_S <= MaxHours * _RESTART_AFTER_S
    /\ now' = now + _RESTART_AFTER_S
    /\ UNCHANGED <<stop_event, procs, _processes, runVars, sigVars, waitVars, perfVars, rotVars, ebpfVars, metaVars, agentVars>>

InitPerf ==
    /\ now = 0
    /\ stop_event = FALSE
    /\ IdleSignal /\ IdleChildren /\ IdleRun /\ IdleWait
    /\ IdlePerf
    /\ IdleOthers

NextPerf ==
    \/ Start
    \/ Stop
    \/ Restart
    \/ RestartIfNotRunning
    \/ RestartIfRssExceeded
    \/ ExitHandler
    \/ PerfTick
    \/ \E pid \in 1..MaxSpawn : orch # "exited" /\ ChildExits(pid, 1)
    \/ orch # "exited" /\ SetStop

SpecPerf == InitPerf /\ [][NextPerf]_vars

\* ------------------------------------------- properties of the supervisor
Has(log, e) == \E i \in 1..Len(log) : log[i] = e
Pids == 1..Len(procs)
Registered(pid) == Has(_processes, pid)
Alive == {pid \in Pids : Running(procs[pid])}
HealthCheck == lastOp.name = "restart_if_rss_exceeded" /\ lastOp.check # None
Check == lastOp.check[1]
Evaluated == HealthCheck /\ Check.evaluated
Mean(q) == Sum(q) \div Len(q)

\* C7: a health check restarts perf for the time+memory reason only when the
\* owned child has been alive for at least _RESTART_AFTER_S since the most
\* recent start() and its RSS has reached the memory threshold.
C7_TimeBasedFromStart ==
    Evaluated /\ Check.time_based =>
        /\ Check.age >= _RESTART_AFTER_S
        /\ Check.rss >= _PERF_MEMORY_USAGE_THRESHOLD

\* The memory half of C7 alone: a time+memory restart needs the RSS threshold.
TimeBasedNeedsMemory ==
    Evaluated /\ Check.time_based => Check.rss >= _PERF_MEMORY_USAGE_THRESHOLD

\* C8: with the baseline established, a health check that reads more than
\* _RSS_GROWTH_THRESHOLD above it stops the old child and spawns a new one in
\* that same call (or is stuck reaping a child that ignored SIGTERM), and a
\* reading at most the threshold above it restarts only for time+memory.
C8_GrowthRestart ==
    Evaluated =>
        /\ Check.rss - Check.baseline > _RSS_GROWTH_THRESHOLD =>
              /\ Has(lastOp.log, "terminate")
              /\ Has(lastOp.log, "spawn") \/ lastOp.exc = Some("Blocked")
        /\ Check.rss - Check.baseline <= _RSS_GROWTH_THRESHOLD =>
              /\ ~Check.growth_based
              /\ ~Check.time_based => lastOp.log = <<>> /\ perf._process = lastOp.owned

C8_Witness ==
    /\ Evaluated /\ lastOp.n = 4
    /\ Check.baseline = 412 * MiB /\ Check.rss = 512 * MiB + 1
    /\ ~Check.time_based
    /\ lastOp.log = <<"clear", "terminate", "reap", "cleanup", "clear", "spawn", "own">>
    /\ perf._process = Some(2) /\ Alive = {2}

Respawned == lastOp.name # "start" /\ Has(lastOp.log, "spawn")

TimerSwitch == 0
DataFile(id, signal) == [id |-> id, kind |-> "data", signal |-> signal]
InjectOf(f) == [id |-> f.id, kind |-> "inject", signal |-> f.signal]
NameOrder(f) == 2 * f.id + (IF f.kind = "inject" THEN 1 ELSE 0)
LastByName(fs) == CHOOSE f \in fs : \A g \in fs : NameOrder(g) <= NameOrder(f)

\* The supervisor after a successful start(): child 1 is owned and registered.
StartedPerf == [NewPerfProcess EXCEPT !._process = Some(1), !.start_time = Some(0)]
StartedOp ==
    [name |-> "start", log |-> <<"spawn", "own">>, exc |-> None, check |-> None,
     owned |-> None, n |-> 0, first |-> <<>>]

\* rot: pc is the step reached; inject_jit the supervisor's option; pending
\* is the cycle whose SIGUSR2 perf has not answered yet (signals sent while
\* one is pending merge into one); written counts perf's
\* files; perfLast is the file perf wrote last (--switch-max-files=1 makes it
\* remove that file after it writes the next one, perfOld being the file it
\* is about to remove); output_files and perf_data are wait_and_script's
\* locals; exc is the exception in flight, ret the value being returned;
\* result is how wait_and_script ended (an exception's name, "text" for the
\* script's output, "empty" for ""); atReturn the files present when the
\* wait ended; died what the handler found; stray says perf has switched
\* its output on its timer or in answer to an earlier cycle's signal; cycle
\* counts rotations.
NewRotation(inject_jit, cycle, old) ==
    [pc |-> "delete", inject_jit |-> inject_jit, cycle |-> cycle,
     pending |-> old.pending, written |-> old.written, perfLast |-> old.perfLast,
     perfOld |-> old.perfOld,
     output_files |-> {}, perf_data |-> None, injected |-> FALSE,
     exc |-> None, result |-> None, ret |-> None, atReturn |-> None,
     died |-> FALSE, stray |-> old.stray]

NoPerfFiles ==
    [written |-> 0, perfLast |-> None, perfOld |-> None, pending |-> None, stray |-> FALSE]

PerfAlive == perf._process # None /\ Running(procs[perf._process[1]])

\* switch_output: assert self._process is not None;
\* remove_files_by_prefix(f"{self._output_path}.")
SwitchOutputDelete ==
    /\ rot.pc = "delete"
    /\ files' = {}
    /\ rot' = [rot EXCEPT !.pc = "signal"]
    /\ UNCHANGED <<now, stop_event, procs, _processes, runVars, sigVars, waitVars,
                   perfVars, ebpfVars, metaVars, agentVars>>

\* switch_output: self._process.send_signal(signal.SIGUSR2)
SwitchOutputSignal ==
    /\ rot.pc = "signal"
    /\ rot' = [rot EXCEPT !.pc = "wait",
                          !.pending = IF PerfAlive THEN Some(rot.cycle) ELSE @]
    /\ procs' = [procs EXCEPT ![perf._process[1]].log = Append(@, "SIGUSR2")]
    /\ UNCHANGED <<now, stop_event, files, _processes, runVars, sigVars, waitVars,
                   perfVars, ebpfVars, metaVars, agentVars>>

\* perf switches its output: it writes <output_path>.<timestamp>, then
\* removes the file it wrote before (--switch-max-files=1).
PerfSwitches(onSignal) ==
    /\ rot.pc # "idle"
    /\ PerfAlive
    /\ rot.perfOld = None
    /\ rot.written < MaxFiles
    /\ onSignal => rot.pending # None
    /\ LET f == DataFile(rot.written + 1, IF onSignal THEN rot.pending[1] ELSE TimerSwitch)
       IN /\ files' = files \cup {f}
          /\ rot' = [rot EXCEPT !.written = @ + 1, !.perfLast = Some(f),
                                !.perfOld = rot.perfLast,
                                !.pending = IF onSignal THEN None ELSE @,
                                !.stray = @ \/ f.signal # rot.cycle]
    /\ UNCHANGED <<now, stop_event, procs, _processes, runVars, sigVars, waitVars,
                   perfVars, ebpfVars, metaVars, agentVars>>

PerfRemovesOld ==
    /\ rot.pc # "idle"
    /\ PerfAlive
    /\ rot.perfOld # None
    /\ files' = files \ {rot.perfOld[1]}
    /\ rot' = [rot EXCEPT !.perfOld = None]
    /\ UNCHANGED <<now, stop_event, procs, _processes, runVars, sigVars, waitVars,
                   perfVars, ebpfVars, metaVars, agentVars>>

\* wait_for_file_by_prefix: wait_event finds a matching file.
RotWaitFound ==
    /\ rot.pc = "wait"
    /\ files # {}
    /\ rot' = [rot EXCEPT !.pc = "glob"]
    /\ UNCHANGED <<now, stop_event, files, procs, _processes, runVars, sigVars,
                   waitVars, perfVars, ebpfVars, metaVars, agentVars>>

\* wait_for_file_by_prefix: wait_event raises, having found no file at its
\* last look: TimeoutError after _DUMP_TIMEOUT_S, StopEventSetException when
\* the stop event is set.
RotWaitFails(kind) ==
    /\ rot.pc = "wait"
    /\ files = {}
    /\ kind = "StopEventSetException" => stop_event
    /\ rot' = [rot EXCEPT !.pc = "handler", !.exc = Some(kind), !.atReturn = Some(files)]
    /\ UNCHANGED <<now, stop_event, files, procs, _processes, runVars, sigVars,
                   waitVars, perfVars, ebpfVars, metaVars, agentVars>>

\* output_files = glob.glob(glob_pattern)
RotGlob ==
    /\ rot.pc = "glob"
    /\ rot' = [rot EXCEPT !.pc = "dedupe", !.output_files = files]
    /\ UNCHANGED <<now, stop_event, files, procs, _processes, runVars, sigVars,
                   waitVars, perfVars, ebpfVars, metaVars, agentVars>>

\* The files os.unlink removes of olds, in name order, up to the first one
\* that is gone, and whether one was gone (FileNotFoundError).
Gone(olds, present) == olds \ present
Unlinked(olds, present) ==
    IF Gone(olds, present) = {} THEN olds
    ELSE LET firstGone == CHOOSE f \in Gone(olds, present) :
                              \A g \in Gone(olds, present) : NameOrder(f) <= NameOrder(g)
         IN {f \in olds : NameOrder(f) < NameOrder(firstGone)}

\* if len(output_files) != 1: sort, unlink all but the last; return the last.
RotDedupe ==
    /\ rot.pc = "dedupe"
    /\ IF rot.output_files = {}
       THEN /\ rot' = [rot EXCEPT !.pc = "handler", !.exc = Some("IndexError"),
                                  !.atReturn = Some(files)]
            /\ UNCHANGED files
       ELSE LET last == LastByName(rot.output_files)
                olds == rot.output_files \ {last}
            IN /\ files' = files \ Unlinked(olds, files)
               /\ rot' = IF Gone(olds, files) # {}
                         THEN [rot EXCEPT !.pc = "handler",
                                          !.exc = Some("FileNotFoundError"),
                                          !.atReturn = Some(files')]
                         ELSE [rot EXCEPT !.pc = IF rot.inject_jit THEN "inject" ELSE "script",
                                          !.perf_data = Some(last),
                                          !.atReturn = Some(files')]
    /\ UNCHANGED <<now, stop_event, procs, _processes, runVars, sigVars,
                   waitVars, perfVars, ebpfVars, metaVars, agentVars>>

\* except Exception: process_died = self._process.poll() is not None; log;
\* if process_died: cleanup_process_reference, self._process = None; raise
RotWaitHandler ==
    /\ rot.pc = "handler"
    /\ LET pid == perf._process[1]
           process_died == ~Running(procs[pid])
       IN /\ rot' = [rot EXCEPT !.pc = "done", !.result = rot.exc, !.died = process_died]
          /\ perf' = IF process_died THEN [perf EXCEPT !._process = None] ELSE perf
          /\ _processes' = IF process_died
                           THEN cleanup_process_reference(World, pid).reg
                           ELSE _processes
    /\ UNCHANGED <<now, stop_event, files, procs, orch, lastOp, readings, runVars,
                   sigVars, waitVars, ebpfVars, metaVars, agentVars>>

RotFrame ==
    UNCHANGED <<now, stop_event, procs, _processes, runVars, sigVars, waitVars,
                perfVars, ebpfVars, metaVars, agentVars>>

\* run_process([perf, "inject", "--jit", "-o", inject_data, "-i", perf_data]):
\* it writes the .inject file, or exits non-zero (CalledProcessError), having
\* written the .inject file or not.
RotInject(ok, wrote) ==
    /\ rot.pc = "inject"
    /\ LET data == rot.perf_data[1]
       IN /\ ok => data \in files /\ wrote
          /\ files' = IF wrote THEN files \cup {InjectOf(data)} ELSE files
          /\ rot' = IF ok THEN [rot EXCEPT !.pc = "unlink_data", !.injected = TRUE]
                    ELSE [rot EXCEPT !.pc = "finally", !.exc = Some("CalledProcessError")]
    /\ RotFrame

\* perf_data.unlink(); perf_data = inject_data
RotUnlinkData ==
    /\ rot.pc = "unlink_data"
    /\ LET data == rot.perf_data[1]
       IN IF data \in files
          THEN /\ files' = files \ {data}
               /\ rot' = [rot EXCEPT !.pc = "script", !.perf_data = Some(InjectOf(data))]
          ELSE /\ UNCHANGED files
               /\ rot' = [rot EXCEPT !.pc = "finally", !.exc = Some("FileNotFoundError")]
    /\ RotFrame

\* run_process(perf script): its stdout is returned; CalledProcessError is
\* caught and "" returned.
RotScript(ok) ==
    /\ rot.pc = "script"
    /\ ok => rot.perf_data[1] \in files
    /\ rot' = [rot EXCEPT !.pc = "finally",
                          !.ret = IF ok THEN Some("text") ELSE Some("empty")]
    /\ UNCHANGED files
    /\ RotFrame

\* finally: perf_data.unlink(); if self._inject_jit: remove_path(inject_data,
\* missing_ok=True).  An unlink of a missing file raises FileNotFoundError in
\* place of what was being returned or raised.
RotFinally ==
    /\ rot.pc = "finally"
    /\ LET data == rot.perf_data[1]
           inject_data == [data EXCEPT !.kind = "inject"]
       IN IF data \in files
          THEN /\ files' = (files \ {data}) \ (IF rot.inject_jit THEN {inject_data} ELSE {})
               /\ rot' = [rot EXCEPT !.pc = "done",
                                     !.result = IF rot.exc # None THEN rot.exc ELSE rot.ret]
          ELSE /\ UNCHANGED files
               /\ rot' = [rot EXCEPT !.pc = "done", !.exc = Some("FileNotFoundError"),
                                     !.result = Some("FileNotFoundError")]
    /\ RotFrame

\* The next cycle rotates again, unless the stop exception ended the cycles
\* or the supervisor dropped its child.
RotNext ==
    /\ rot.pc = "done"
    /\ rot.cycle < MaxRotations
    /\ perf._process # None
    /\ rot.result # Some("StopEventSetException")
    /\ rot' = NewRotation(rot.inject_jit, rot.cycle + 1, rot)
    /\ UNCHANGED files
    /\ RotFrame

InitRotate ==
    /\ now = 0
    /\ stop_event = FALSE
    /\ IdleSignal /\ IdleRun /\ IdleWait /\ IdleEbpf /\ IdleMeta /\ IdleAgent
    /\ procs = <<NewChild(FALSE)>> /\ _processes = <<1>>
    /\ perf = StartedPerf /\ orch = "running" /\ lastOp = StartedOp /\ readings = <<>>
    /\ files = {}
    /\ \E inject_jit \in BOOLEAN : rot = NewRotation(inject_jit, 1, NoPerfFiles)

NextRotate ==
    \/ SwitchOutputDelete
    \/ SwitchOutputSignal
    \/ \E onSignal \in BOOLEAN : PerfSwitches(onSignal)
    \/ PerfRemovesOld
    \/ RotWaitFound
    \/ \E kind \in {"TimeoutError", "StopEventSetException"} : RotWaitFails(kind)
    \/ RotGlob
    \/ RotDedupe
    \/ RotWaitHandler
    \/ \E ok \in BOOLEAN, wrote \in BOOLEAN : RotInject(ok, wrote)
    \/ RotUnlinkData
    \/ \E ok \in BOOLEAN : RotScript(ok)
    \/ RotFinally
    \/ RotNext
    \/ ChildExits(1, 1)
    \/ SetStop

SpecRotate == InitRotate /\ [][NextRotate]_vars

\* ------------------------------------------------ properties of a rotation
Rotated == rot.pc = "done"
TimedOut == Rotated /\ rot.result = Some("TimeoutError")
Consumed == Rotated /\ rot.perf_data # None
ConsumedData == [rot.perf_data[1] EXCEPT !.kind = "data"]

\* C11: when no rotated file appears within _DUMP_TIMEOUT_S, wait_and_script
\* returns empty text and the perf child that is still alive stays owned and
\* is sent nothing.
C11_TimeoutReturnsEmpty ==
    Rotated /\ rot.exc = Some("TimeoutError") /\ ~rot.died =>
        /\ rot.result = Some("empty")
        /\ perf._process = Some(1)

\* The part of C11 about the child: a rotation timeout leaves a living child
\* owned, registered and unsignalled but for SIGUSR2.
TimeoutKeepsChild ==
    TimedOut /\ ~rot.died =>
        /\ perf._process = Some(1) /\ Registered(1)
        /\ \A i \in 1..Len(procs[1].log) : procs[1].log[i] = "SIGUSR2"

\* C12: when the wait found a file at most one file matches as it returns,
\* none when it timed out; once wait_and_script has consumed the rotated
\* file, that file and its .inject file are gone however it ended.
C12_FilesAfterRotation ==
    /\ rot.pc # "idle" /\ rot.atReturn # None /\ rot.exc # Some("TimeoutError") =>
          Cardinality(rot.atReturn[1]) <= 1
    /\ rot.pc # "idle" /\ rot.exc = Some("TimeoutError") => rot.atReturn = Some({})
    /\ Consumed => ConsumedData \notin files /\ InjectOf(ConsumedData) \notin files

\* When perf switches only in answer to the rotation's own signal the files
\* are as C12 has them.
FilesAfterUntimedRotation == rot.pc # "idle" /\ ~rot.stray => C12_FilesAfterRotation

\* C13: the file wait_and_script consumes is the one perf wrote in answer to
\* this rotation's SIGUSR2, never one written on perf's own timer.
C13_ConsumesSignalFile ==
    rot.pc # "idle" /\ rot.perf_data # None => ConsumedData.signal = rot.cycle

\* The same when perf's timer does not fire and no answer comes late.
ConsumesSignalFileUntimed ==
    rot.pc # "idle" /\ ~rot.stray /\ rot.perf_data # None => ConsumedData.signal = rot.cycle

\* C14: when perf inject or perf script fails, wait_and_script returns empty
\* text, no exception escapes, and the perf child is left as it was.
C14_StageFailureEmpty ==
    Consumed /\ (rot.exc = Some("CalledProcessError") \/ rot.ret = Some("empty")) =>
        /\ rot.result = Some("empty")
        /\ perf._process = Some(1) /\ Registered(1)
        /\ \A i \in 1..Len(procs[1].log) : procs[1].log[i] = "SIGUSR2"

\* The parts of C14 that hold: a failed perf script gives empty text unless
\* the final unlink fails, and no stage failure touches the perf child.
StageFailureKeepsChild ==
    /\ Consumed /\ rot.ret = Some("empty") => rot.result \in {Some("empty"), Some("FileNotFoundError")}
    /\ Consumed =>
          /\ perf._process = Some(1) /\ Registered(1)
          /\ \A i \in 1..Len(procs[1].log) : procs[1].log[i] = "SIGUSR2"

\* ------------------------------------------------------ start()'s outcomes
\* The operation just made called start(), which spawned child Len(procs').
CalledStart == Len(procs') > Len(procs)
Spawned == procs'[Len(procs')]

\* C15: when the output file appears in time the child start() spawned is
\* owned and is_running() is true; when the wait times out the child has
\* been killed, no child is owned, is_running() is false and TimeoutError
\* reaches the caller.
C15_StartOutcome ==
    [][CalledStart =>
          /\ lastOp'.exc = None =>
                /\ perf'._process = Some(Len(procs'))
                /\ Running(Spawned)
                /\ perf'.start_time = Some(now)
          /\ lastOp'.exc = Some("TimeoutError") =>
                /\ Spawned.log = <<"SIGKILL">> /\ ~Running(Spawned)
                /\ perf'._process = None
          /\ lastOp'.exc \in {None, Some("TimeoutError"), Some("StopEventSetException")}
      ]_vars

C15_Witness ==
    /\ lastOp.name = "start" /\ lastOp.exc = Some("TimeoutError")
    /\ lastOp.log = <<"spawn", "kill", "cleanup">>
    /\ procs[1].hung /\ procs[1].log = <<"SIGKILL">> /\ procs[1].rc = Some(-9)
    /\ perf._process = None /\ ~Registered(1)

\* ===================================================== PythonEbpfProfiler
\* profilers/python_ebpf.py.  ebpf holds the profiler object (process,
\* process_selector, whether TMPDIR gave it a _pyperf_staticx_tmpdir), the
\* machine it runs on (env, whether the staticx directory and a dump file
\* exist), what PyPerf has written to its pipes (captured), where the caller
\* is (pc) and what the last call raised (exc).  History: launches lists every
\* PyPerf launch with the environment it was launched in, closed counts the
\* selectors closed, dumps counts the dumps requested.
MaxEbpfStarts == 2
MaxDumps == 2

\* What PyPerf may have written to its stdout and stderr pipes.
StdoutTexts == {"", "out"}
StderrTexts == {"", "err"}

EnvReady(env) == env.init_pid_ns /\ env.memlock = "infinity" /\ env.debugfs

Environments ==
    [init_pid_ns : BOOLEAN, memlock : {"64k", "infinity"}, debugfs : BOOLEAN]

\* PythonEbpfProfiler.__init__
NewEbpfProfiler(env, tmpdir) ==
    [pc |-> "new", process |-> None, process_selector |-> None,
     tmpdir |-> tmpdir, tmpdir_exists |-> FALSE, env |-> env,
     captured |-> [stdout |-> "", stderr |-> ""], dumpfile |-> FALSE,
     pending |-> FALSE, exc |-> None, launches |-> <<>>, closed |-> 0,
     dumps |-> 0, op |-> "init"]

\* _ebpf_environment: the assertion, setrlimit, and the mount when missing.
_ebpf_environment(env) ==
    IF ~env.init_pid_ns THEN [ok |-> FALSE, env |-> env]
    ELSE [ok |-> TRUE, env |-> [env EXCEPT !.memlock = "infinity", !.debugfs = TRUE]]

\* _staticx_cleanup: rmtree when the directory is configured and exists.
_staticx_cleanup(e) == [e EXCEPT !.tmpdir_exists = FALSE]

Launch(e, by) ==
    [e EXCEPT !.launches = Append(@, [by |-> by, env |-> e.env]),
              !.tmpdir_exists = e.tmpdir]

EbpfFrame ==
    UNCHANGED <<now, stop_event, sigVars, runVars, waitVars, perfVars, rotVars, metaVars, agentVars>>

EbpfPid == ebpf.process[1]

\* test(): _ebpf_environment, then a one-second PyPerf run that is polled,
\* killed on timeout, checked for its output, and cleaned up.
EbpfTest(outcome) ==
    /\ ebpf.pc = "new" /\ ebpf.op = "init"
    /\ LET r == _ebpf_environment(ebpf.env) IN
       IF ~r.ok
       THEN /\ ebpf' = [ebpf EXCEPT !.exc = Some([name |-> "AssertionError"]),
                                    !.op = "test"]
            /\ UNCHANGED <<procs, _processes>>
       ELSE LET s == start_process(procs, _processes, FALSE)
                c == IF outcome = "TimeoutError"
                     THEN send_signal(s.procs[s.pid], "SIGKILL")
                     ELSE [s.procs[s.pid] EXCEPT !.rc = Some(0)]
                e == Launch([ebpf EXCEPT !.env = r.env], "test")
            IN /\ procs' = [s.procs EXCEPT ![s.pid] = c]
               /\ _processes' = s.reg
               /\ ebpf' = [_staticx_cleanup(e) EXCEPT
                              !.exc = IF outcome = "ok" THEN None
                                      ELSE Some([name |-> outcome]),
                              !.op = "test"]
    /\ EbpfFrame

\* start(): no environment check; removes old output, launches PyPerf and
\* waits for the transient data file.  Of what wait_event raises only
\* TimeoutError is caught; StopEventSetException, raised when the stop
\* event is set, leaves start() as it is.
EbpfStart(outcome, hung, out, err) ==
    /\ ebpf.pc \in {"new", "raised", "stopped"}
    /\ Len(ebpf.launches) < MaxEbpfStarts
    /\ outcome = "StopEventSetException" => stop_event
    /\ LET s == start_process(procs, _processes, hung)
           e == [Launch(ebpf, "start") EXCEPT !.dumpfile = FALSE, !.pending = FALSE,
                                               !.op = "start"]
       IN IF outcome = "TimeoutError"
          THEN /\ procs' = [s.procs EXCEPT ![s.pid] = send_signal(@, "SIGKILL")]
               /\ _processes' = s.reg
               /\ ebpf' = [_staticx_cleanup(e) EXCEPT
                              !.exc = Some([name |-> "TimeoutError"]), !.pc = "raised"]
          ELSE IF outcome = "StopEventSetException"
          THEN /\ procs' = s.procs
               /\ _processes' = s.reg
               /\ ebpf' = [e EXCEPT !.exc = Some([name |-> "StopEventSetException"]),
                                    !.pc = "raised"]
          ELSE /\ procs' = s.procs
               /\ _processes' = s.reg
               /\ ebpf' = [e EXCEPT !.process = Some(s.pid),
                                    !.process_selector = Some("registered"),
                                    !.captured = [stdout |-> out, stderr |-> err],
                                    !.exc = None, !.pc = "running"]
    /\ EbpfFrame

\* _dump, lines 267-269: the dump signal is sent.
DumpSignal ==
    /\ ebpf.pc = "running" /\ ebpf.dumps < MaxDumps
    /\ procs' = [procs EXCEPT ![EbpfPid] = send_signal(@, "SIGUSR2")]
    /\ ebpf' = [ebpf EXCEPT !.pc = "dump", !.dumps = @ + 1, !.exc = None, !.op = "dump",
                            !.pending = Running(procs[EbpfPid])]
    /\ UNCHANGED _processes
    /\ EbpfFrame

\* PyPerf answers SIGUSR2 with a dump file, unless it is hung.
PyPerfDumps ==
    /\ ebpf.process # None /\ ebpf.pending
    /\ Running(procs[EbpfPid]) /\ ~procs[EbpfPid].hung
    /\ ebpf' = [ebpf EXCEPT !.dumpfile = TRUE, !.pending = FALSE]
    /\ UNCHANGED <<procs, _processes>>
    /\ EbpfFrame

\* wait_for_file_by_prefix returns the file; snapshot() reads and unlinks it.
DumpFound ==
    /\ ebpf.pc = "dump" /\ ebpf.dumpfile
    /\ ebpf' = [ebpf EXCEPT !.pc = "running", !.dumpfile = FALSE]
    /\ UNCHANGED <<procs, _processes>>
    /\ EbpfFrame

\* The stop event ends the wait; _dump does not catch StopEventSetException.
DumpStopped ==
    /\ ebpf.pc = "dump" /\ stop_event
    /\ ebpf' = [ebpf EXCEPT !.pc = "running",
                            !.exc = Some([name |-> "StopEventSetException"])]
    /\ UNCHANGED <<procs, _processes>>
    /\ EbpfFrame

\* _unregister_process_selectors
_unregister_process_selectors(e) ==
    [e EXCEPT !.process_selector = None, !.closed = @ + 1]

\* _terminate up to its reap: the selector is closed and PyPerf is sent
\* SIGTERM.  by is the caller, _dump's except clause or stop().
TerminateBegins(by) ==
    /\ procs' = [procs EXCEPT ![EbpfPid] = send_signal(@, "SIGTERM")]
    /\ ebpf' = [_unregister_process_selectors(ebpf) EXCEPT !.pc = "reap", !.op = by]
    /\ UNCHANGED _processes
    /\ EbpfFrame

\* No file within _DUMP_TIMEOUT: wait_event raises TimeoutError.
DumpTimeout ==
    /\ ebpf.pc = "dump" /\ ~ebpf.dumpfile
    /\ TerminateBegins("dump_timeout")

\* stop()
EbpfStop ==
    /\ ebpf.pc = "running"
    /\ TerminateBegins("stop")

\* stop() on a profiler that owns no PyPerf: _terminate begins with
\* _unregister_process_selectors, whose first line is
\* "assert self.process_selector".
EbpfStopNotRunning ==
    /\ ebpf.pc \in {"new", "raised", "stopped"}
    /\ ebpf' = IF ebpf.process_selector = None
               THEN [ebpf EXCEPT !.exc = Some([name |-> "AssertionError"]), !.op = "stop"]
               ELSE [_staticx_cleanup(_unregister_process_selectors(ebpf)) EXCEPT
                        !.exc = None, !.op = "stop", !.pc = "stopped"]
    /\ UNCHANGED <<procs, _processes>>
    /\ EbpfFrame

\* What _terminate returns: (exit_status, stdout, stderr).
TerminateResult(c, captured) == <<c.rc, captured.stdout, captured.stderr>>

\* _dump, lines 283-288: "exit_status, stderr, stdout = self._terminate()",
\* then PythonEbpfError(exit_status, process.args, stdout, stderr).
DumpRaise(t) ==
    LET exit_status == t[1]
        stderr == t[2]
        stdout == t[3]
    IN [name |-> "PythonEbpfError", returncode |-> exit_status,
        output |-> stdout, stderr |-> stderr]

\* _terminate from its reap on: communicate() returns once PyPerf has
\* exited; process = None; _staticx_cleanup; then the caller goes on.
TerminateReaps ==
    /\ ebpf.pc = "reap" /\ CanReap(procs[EbpfPid])
    /\ procs' = [procs EXCEPT ![EbpfPid] = reap_process(@)]
    /\ LET t == TerminateResult(procs[EbpfPid], ebpf.captured)
           e == _staticx_cleanup([ebpf EXCEPT !.process = None, !.dumpfile = FALSE])
       IN ebpf' = IF ebpf.op = "dump_timeout"
                  THEN [e EXCEPT !.pc = "raised", !.exc = Some(DumpRaise(t))]
                  ELSE [e EXCEPT !.pc = "stopped", !.exc = None]
    /\ UNCHANGED _processes
    /\ EbpfFrame

\* PyPerf exits by itself.
PyPerfExits ==
    /\ ebpf.process # None
    /\ ChildExits(EbpfPid, 1)

InitEbpf ==
    /\ now = 0
    /\ stop_event = FALSE
    /\ IdleChildren /\ IdleSignal /\ IdleRun /\ IdleWait /\ IdlePerf
    /\ IdleRotate /\ IdleMeta /\ IdleAgent
    /\ \E env \in Environments, tmpdir \in BOOLEAN : ebpf = NewEbpfProfiler(env, tmpdir)

NextEbpf ==
    \/ \E outcome \in {"ok", "TimeoutError", "PythonEbpfError"} : EbpfTest(outcome)
    \/ \E outcome \in {"ok", "TimeoutError", "StopEventSetException"}, hung \in BOOLEAN,
          out \in StdoutTexts, err \in StderrTexts : EbpfStart(outcome, hung, out, err)
    \/ DumpSignal
    \/ PyPerfDumps
    \/ DumpFound
    \/ DumpStopped
    \/ DumpTimeout
    \/ EbpfStop
    \/ EbpfStopNotRunning
    \/ TerminateReaps
    \/ PyPerfExits
    \/ SetStop

SpecEbpf == InitEbpf /\ [][NextEbpf]_vars

\* ------------------------------------------- properties of a dump timeout
\* _dump's except clause is running or has raised.
DumpTimedOut == ebpf.pc \in {"reap", "raised"} /\ ebpf.op = "dump_timeout"
DumpRaised == ebpf.pc = "raised" /\ ebpf.op = "dump_timeout"
LastPyPerf == procs[Len(procs)]

\* C16: after a dump timeout PyPerf is not running; PyPerf has been sent
\* SIGTERM and reaped, the selector is closed, the staticx directory is
\* gone, process is None and PythonEbpfError carries an exit status.
C16_DumpTimeoutTerminates ==
    DumpTimedOut =>
        /\ ~Running(LastPyPerf)
        /\ Has(LastPyPerf.log, "SIGTERM")
        /\ ebpf.process_selector = None /\ ebpf.closed > 0
        /\ ebpf.pc = "raised" =>
              /\ LastPyPerf.reaped
              /\ ebpf.process = None
              /\ ~ebpf.tmpdir_exists
              /\ ebpf.exc # None /\ ebpf.exc[1].name = "PythonEbpfError"
              /\ ebpf.exc[1].returncode # None

\* What holds of every dump timeout: unless PyPerf is hung it is not
\* running; and once the error is raised everything C16 lists is done.
DumpTimeoutTerminatesResponsive ==
    DumpTimedOut =>
        /\ (~LastPyPerf.hung => ~Running(LastPyPerf))
        /\ Has(LastPyPerf.log, "SIGTERM")
        /\ ebpf.process_selector = None /\ ebpf.closed > 0
        /\ ebpf.pc = "raised" =>
              /\ LastPyPerf.reaped /\ ~Running(LastPyPerf)
              /\ ebpf.process = None
              /\ ~ebpf.tmpdir_exists
              /\ ebpf.exc # None /\ ebpf.exc[1].name = "PythonEbpfError"
              /\ ebpf.exc[1].returncode # None

\* C17: the PythonEbpfError of a dump timeout has PyPerf's stdout as its
\* output and PyPerf's stderr as its stderr.
C17_ErrorCarriesOutputs ==
    DumpRaised =>
        /\ ebpf.exc[1].output = ebpf.captured.stdout
        /\ ebpf.exc[1].stderr = ebpf.captured.stderr

\* What the code does: the two are exchanged.
ErrorOutputsExchanged ==
    DumpRaised =>
        /\ ebpf.exc[1].output = ebpf.captured.stderr
        /\ ebpf.exc[1].stderr = ebpf.captured.stdout

\* C18: every PyPerf that start() launches is launched with the eBPF
\* prerequisites in place (initial PID namespace, RLIMIT_MEMLOCK infinite,
\* /sys/kernel/debug mounted).
C18_StartEnforcesPrerequisites ==
    \A i \in 1..Len(ebpf.launches) :
        ebpf.launches[i].by = "start" => EnvReady(ebpf.launches[i].env)

\* What holds: test() launches PyPerf only with the prerequisites in place.
TestEnforcesPrerequisites ==
    \A i \in 1..Len(ebpf.launches) :
        ebpf.launches[i].by = "test" => EnvReady(ebpf.launches[i].env)

\* ================================================== read_external_metadata
\* metadata/external_metadata.py.  Wall-clock time is in seconds.  A map
\* (ProfileMetadata) is a set of <<key, value>> pairs.  A JSON object key is
\* a sequence of characters.  The "application" object of the file is the
\* sequence of its <<key, map>> members in file order, its keys distinct.
\* 5 * 60, five minutes
EXTERNAL_METADATA_STALENESS_THRESHOLD_S == 300

MaxKeyLen == 2
MaxMembers == 2

\* Keys of decimal digits, and one key that is not a number.
Digits == {"0", "7"}
Keys == UNION {[1..n -> Digits] : n \in 1..MaxKeyLen} \cup {<<"x">>}
Maps == {{}, {<<"team", "A">>}, {<<"env", "prod">>}}
EmptyMap == {}

\* int(k) on a string of decimal digits; None is ValueError.
DigitOf(ch) == CASE ch = "0" -> 0 [] ch = "7" -> 7 [] OTHER -> -1

RECURSIVE IntOfDigits(_, _)
IntOfDigits(k, acc) ==
    IF k = <<>> THEN Some(acc)
    ELSE IF DigitOf(Head(k)) < 0 THEN None
    ELSE IntOfDigits(Tail(k), acc * 10 + DigitOf(Head(k)))

int(k) == IntOfDigits(k, 0)

\* A dict that keeps what it already holds for a key.
KeepEntry(d, n, v) ==
    [x \in DOMAIN d \cup {n} |-> IF x \in DOMAIN d THEN d[x] ELSE v]

\* d[n] = v
PutEntry(d, n, v) ==
    [x \in DOMAIN d \cup {n} |-> IF x = n THEN v ELSE d[x]]

EmptyDict == [x \in {} |-> {}]

\* {int(k): v for k, v in members}; None when an int(k) raised.
RECURSIVE PidToAppMetadata(_, _)
PidToAppMetadata(members, d) ==
    IF members = <<>> THEN Some(d)
    ELSE LET n == int(Head(members)[1]) IN
         IF n = None THEN None
         ELSE PidToAppMetadata(Tail(members), PutEntry(d, n[1], Head(members)[2]))

ExternalMetadata(static, application) ==
    [static |-> static, application |-> application]

\* .get(section, {}): a section is None when the file lacks it.
Get(section, default) == IF section = None THEN default ELSE section[1]

\* A parse that keeps "static" when an application key is no integer.
ParseKeepsStatic(file) ==
    IF file.json # "object" THEN ExternalMetadata(EmptyMap, EmptyDict)
    ELSE LET application == PidToAppMetadata(Get(file.application, <<>>), EmptyDict) IN
         ExternalMetadata(Get(file.static, EmptyMap),
                          IF application = None THEN EmptyDict ELSE application[1])

\* Lines 66-73: read_text, json.loads, the two sections, and the except
\* clause.  file.json is "unreadable" when read_text raises, "invalid" when
\* json.loads does, "array" when the text is JSON but no object (.get
\* raises AttributeError).
ParseFile(file) ==
    IF file.json # "object" THEN ExternalMetadata(EmptyMap, EmptyDict)
    ELSE LET application == PidToAppMetadata(Get(file.application, <<>>), EmptyDict) IN
         IF application = None THEN ExternalMetadata(EmptyMap, EmptyDict)
         ELSE ExternalMetadata(Get(file.static, EmptyMap), application[1])

IsStaleAtThreshold(time, last_update) ==
    time - last_update >= EXTERNAL_METADATA_STALENESS_THRESHOLD_S

\* Line 61
IsStale(time, last_update) ==
    time - last_update > EXTERNAL_METADATA_STALENESS_THRESHOLD_S

DistinctKeys(members) ==
    \A i, j \in 1..Len(members) : members[i][1] = members[j][1] => i = j

Members ==
    {m \in UNION {[1..n -> Keys \X (Maps \ {EmptyMap})] : n \in 0..MaxMembers} :
        DistinctKeys(m)}

Files ==
    [json : {"object"}, static : {None} \cup {Some(m) : m \in Maps},
     application : {None} \cup {Some(m) : m \in Members}]
    \cup [json : {"invalid", "array", "unreadable"}, static : {None}, application : {None}]

MetaTimes == {1299, 1300, 1301}
MetaMtime == 1000

MetaFrame ==
    UNCHANGED <<now, stop_event, procs, _processes, sigVars, runVars, waitVars,
                perfVars, rotVars, ebpfVars, agentVars>>

\* Lines 57-64: the path test, stat() and the staleness test.
MetaStat ==
    /\ meta.pc = "called"
    /\ meta' =
         IF meta.path = None
         THEN [meta EXCEPT !.pc = "done",
                           !.result = Some(ExternalMetadata(EmptyMap, EmptyDict))]
         ELSE IF ~meta.exists
         THEN [meta EXCEPT !.pc = "done", !.touched = TRUE,
                           !.exc = Some("FileNotFoundError")]
         ELSE IF IsStale(meta.time, meta.mtime)
         THEN [meta EXCEPT !.pc = "done", !.touched = TRUE,
                           !.exc = Some("ExternalMetadataStaleError")]
         ELSE [meta EXCEPT !.pc = "read", !.touched = TRUE]
    /\ MetaFrame

\* Lines 66-73: read_text and the parse.
MetaRead ==
    /\ meta.pc = "read"
    /\ meta' = [meta EXCEPT !.pc = "done", !.read = TRUE,
                            !.result = Some(ParseFile(meta.file))]
    /\ MetaFrame

\* The file of the specification's example.
ExampleFile ==
    [json |-> "object", static |-> Some({<<"env", "prod">>}),
     application |-> Some(<<<< <<"7">>, {<<"team", "A">>} >>>>)]

\* The calls made: every path, presence and age with the example file, and
\* every file with a path to a fresh file.
MetaCalls ==
    [path : {None, Some("external_metadata.json")}, exists : BOOLEAN,
     time : MetaTimes, file : {ExampleFile}]
    \cup [path : {Some("external_metadata.json")}, exists : {TRUE},
          time : {MetaMtime}, file : Files]

InitMeta ==
    /\ now = 0
    /\ stop_event = FALSE
    /\ IdleChildren /\ IdleSignal /\ IdleRun /\ IdleWait /\ IdlePerf
    /\ IdleRotate /\ IdleEbpf /\ IdleAgent
    /\ \E c \in MetaCalls :
          meta = [pc |-> "called", path |-> c.path, exists |-> c.exists,
                  time |-> c.time, mtime |-> MetaMtime, file |-> c.file,
                  touched |-> FALSE, read |-> FALSE, result |-> None, exc |-> None]

NextMeta == MetaStat \/ MetaRead

SpecMeta == InitMeta /\ [][NextMeta]_vars

\* ------------------------------------- properties of read_external_metadata
MetaDone == meta.pc = "done"
MetaAge == meta.time - meta.mtime
MetaStale == meta.exc = Some("ExternalMetadataStaleError")

\* C19: ExternalMetadataStaleError is raised exactly when the file is more
\* than 300 s old, and then the file was not read; a file exactly 300 s old
\* is read; without a path the result is two empty maps and the filesystem
\* was not touched.
C19_StaleExactlyAbove300 ==
    MetaDone =>
        /\ MetaStale <=> (meta.path # None /\ meta.exists /\ MetaAge > 300)
        /\ MetaStale => ~meta.read /\ meta.result = None
        /\ (meta.path # None /\ meta.exists /\ MetaAge = 300) => meta.read
        /\ meta.path = None =>
              /\ meta.result = Some(ExternalMetadata(EmptyMap, EmptyDict))
              /\ ~meta.touched /\ ~meta.read /\ meta.exc = None

C19_Witness ==
    /\ MetaDone /\ MetaStale /\ MetaAge = 301 /\ ~meta.read
    /\ meta.file.json = "object"

\* The call read a fresh file that is a JSON object whose application keys
\* are all decimal PIDs.
WellFormed(file) ==
    /\ file.json = "object"
    /\ \A i \in 1..Len(Get(file.application, <<>>)) :
          int(Get(file.application, <<>>)[i][1]) # None
ReadWellFormed == MetaDone /\ meta.read /\ WellFormed(meta.file)
FileMembers == Get(meta.file.application, <<>>)
PidOf(i) == int(FileMembers[i][1])[1]

\* C20 as stated: static is the file's "static" (empty when missing), and
\* the application map sends int(k) to k's map for every key k of the
\* file's "application" (empty when missing).
C20_EveryKeyMapped ==
    ReadWellFormed =>
        /\ meta.result[1].static = Get(meta.file.static, EmptyMap)
        /\ DOMAIN meta.result[1].application = {PidOf(i) : i \in 1..Len(FileMembers)}
        /\ \A i \in 1..Len(FileMembers) :
              meta.result[1].application[PidOf(i)] = FileMembers[i][2]

\* C20 amended: int(k) is sent to k's map unless a later key of the file
\* has the same integer value; then the last such key's map is the one kept.
C20_LastKeyOfPidMapped ==
    ReadWellFormed =>
        /\ meta.result[1].static = Get(meta.file.static, EmptyMap)
        /\ DOMAIN meta.result[1].application = {PidOf(i) : i \in 1..Len(FileMembers)}
        /\ \A i \in 1..Len(FileMembers) :
              (\A j \in (i + 1)..Len(FileMembers) : PidOf(j) # PidOf(i)) =>
                  meta.result[1].application[PidOf(i)] = FileMembers[i][2]

\* Two keys of one PID, "7" then "07", with different maps.
C20_Witness ==
    /\ ReadWellFormed
    /\ Len(FileMembers) = 2
    /\ FileMembers[1][1] = <<"7">> /\ FileMembers[2][1] = <<"0", "7">>
    /\ FileMembers[1][2] # FileMembers[2][2]
    /\ meta.file.static = Some({<<"env", "prod">>})
    /\ meta.result[1].application[7] = FileMembers[2][2]

\* ===================================================== grab_gprofiler_mutex
\* utils/__init__.py, grab_gprofiler_mutex.  The lock is the abstract socket
\* address "\0gprofiler_lock" of the init network namespace: mutex.bound is
\* the agent process whose socket is bound to it.  An agent is a process:
\* pc is "off" when it does not exist; rets lists what grab_gprofiler_mutex
\* returned in each of its lives.
MaxAgents == 2
MaxAgentLives == 2

Agents == 1..MaxAgents

LockMessage == "Could not acquire gProfiler's lock"

NewAgent == [pc |-> "off", ret |-> None, stderr |-> <<>>, rets |-> <<>>]

\* try_acquire_mutex: bind() of the address succeeds for one socket only.
try_acquire_mutex(bound, a) ==
    IF bound = None THEN [ok |-> TRUE, bound |-> Some(a)]
    ELSE [ok |-> FALSE, bound |-> bound]

\* An except clause that reports nothing.
ExceptSilently(ag) ==
    [ag EXCEPT !.pc = "returned", !.ret = Some(FALSE), !.rets = Append(@, FALSE)]

\* except CouldNotAcquireMutex: print(..., file=sys.stderr); return False
ExceptCouldNotAcquire(ag) ==
    [ag EXCEPT !.pc = "returned", !.ret = Some(FALSE), !.rets = Append(@, FALSE),
               !.stderr = Append(@, LockMessage)]

MutexFrame ==
    UNCHANGED <<now, stop_event, procs, _processes, sigVars, runVars, waitVars, perfVars,
                rotVars, ebpfVars, metaVars, mon, fac, snap, gprofiler, sysprof,
                hwev, kmsg>>

\* An agent process starts.
AgentStarts(a) ==
    /\ mutex.agents[a].pc = "off" /\ Len(mutex.agents[a].rets) < MaxAgentLives
    /\ mutex' = [mutex EXCEPT !.agents[a] = [NewAgent EXCEPT !.pc = "started",
                                                !.rets = mutex.agents[a].rets]]
    /\ MutexFrame

\* The try block: run_in_ns_wrapper(["net"], try_acquire_mutex); on success
\* the else clause returns True.
GrabTry(a) ==
    /\ mutex.agents[a].pc = "started"
    /\ LET r == try_acquire_mutex(mutex.bound, a) IN
       mutex' = [mutex EXCEPT
                    !.bound = r.bound,
                    !.agents[a] = IF r.ok
                                  THEN [@ EXCEPT !.pc = "returned", !.ret = Some(TRUE),
                                                 !.rets = Append(@, TRUE)]
                                  ELSE [@ EXCEPT !.pc = "except"]]
    /\ MutexFrame

GrabExcept(a) ==
    /\ mutex.agents[a].pc = "except"
    /\ mutex' = [mutex EXCEPT !.agents[a] = ExceptCouldNotAcquire(@)]
    /\ MutexFrame

\* The agent process exits; the kernel closes its sockets.
AgentExits(a) ==
    /\ mutex.agents[a].pc # "off"
    /\ mutex' = [mutex EXCEPT !.agents[a].pc = "off",
                              !.bound = IF @ = Some(a) THEN None ELSE @]
    /\ MutexFrame

InitMutex ==
    /\ now = 0
    /\ stop_event = FALSE
    /\ IdleChildren /\ IdleSignal /\ IdleRun /\ IdleWait /\ IdlePerf
    /\ IdleRotate /\ IdleEbpf /\ IdleMeta
    /\ IdleMon /\ IdleFactory /\ IdleSnapshot /\ IdleCycle /\ IdleSysProf /\ IdleTools
    /\ mutex = [pc |-> "agents", bound |-> None, agents |-> [a \in Agents |-> NewAgent]]

NextMutex ==
    \E a \in Agents : AgentStarts(a) \/ GrabTry(a) \/ GrabExcept(a) \/ AgentExits(a)

SpecMutex == InitMutex /\ [][NextMutex]_vars

HoldsLock(a) == mutex.agents[a].pc # "off" /\ mutex.agents[a].ret = Some(TRUE)

\* C21: at most one live agent was returned True; an agent that was
\* returned False has the message on its stderr; the address is bound only
\* while its holder's process exists, so a later agent can obtain it.
C21_OneHolder ==
    /\ \A a, b \in Agents : HoldsLock(a) /\ HoldsLock(b) => a = b
    /\ \A a \in Agents :
          /\ mutex.agents[a].ret = Some(FALSE) => mutex.agents[a].stderr = <<LockMessage>>
          /\ mutex.agents[a].ret = Some(TRUE) => mutex.agents[a].stderr = <<>>
          /\ HoldsLock(a) <=> mutex.bound = Some(a)
          /\ mutex.agents[a].pc = "returned" => mutex.agents[a].ret # None
    /\ mutex.bound # None => mutex.agents[mutex.bound[1]].pc # "off"

\* An agent that was refused while another held the lock, and obtained it
\* in its next life, after the holder had exited.
C21_Witness ==
    \E a, b \in Agents :
        /\ a # b
        /\ mutex.agents[a].rets = <<FALSE, TRUE>> /\ HoldsLock(a)
        /\ mutex.agents[b].rets = <<TRUE>> /\ mutex.agents[b].pc = "off"

\* ===================================================== SystemMetricsMonitor
\* system_metrics.py.  The poller threads append without the lock; a list
\* operation (len, append, slice, slice assignment) is one step.  An average
\* is the exact fraction <<sum, count>> of the samples it covers.
MaxMemSamples == 3
MaxMemReads == 3

ExactMean(q) == <<Sum(q), Len(q)>>

\* The n-th RAM percentage psutil reports; the samples are told apart by
\* their values.
RamPercent(n) == 10 * n

\* self._mem_percentages = []  loses what was appended since len().
ClearList(list, current_length) == <<>>

\* self._mem_percentages[:current_length] = []
DeleteSlice(list, current_length) == SubSeq(list, current_length + 1, Len(list))

MonFrame ==
    UNCHANGED <<now, stop_event, procs, _processes, sigVars, runVars, waitVars, perfVars,
                rotVars, ebpfVars, metaVars, mutex, fac, snap, gprofiler, sysprof,
                hwev, kmsg>>

\* _continuously_poll_memory: one iteration of the loop.
PollMemory ==
    /\ mon.pc = "memory" /\ ~stop_event /\ mon.polled < MaxMemSamples
    /\ mon' = [mon EXCEPT !.polled = @ + 1,
                          !._mem_percentages = Append(@, RamPercent(mon.polled + 1))]
    /\ MonFrame

\* _get_average_memory_utilization: with self._lock.
MemCall ==
    /\ mon.pc = "memory" /\ mon.reader = "idle" /\ Len(mon.returned) < MaxMemReads
    /\ mon' = [mon EXCEPT !.reader = "len"]
    /\ MonFrame

\* current_length = len(...); return None when 0.
MemLen ==
    /\ mon.pc = "memory" /\ mon.reader = "len"
    /\ LET n == Len(mon._mem_percentages) IN
       mon' = [mon EXCEPT
                  !.current_length = n,
                  !.fresh = mon.polled - mon.seen,
                  !.seen = mon.polled,
                  !.reader = IF n = 0 THEN "idle" ELSE "mean",
                  !.returned = IF n = 0
                               THEN Append(@, [average |-> None, of |-> <<>>,
                                               fresh |-> mon.polled - mon.seen, left |-> 0])
                               ELSE @]
    /\ MonFrame

\* average_memory = statistics.mean(self._mem_percentages[:current_length])
MemMean ==
    /\ mon.pc = "memory" /\ mon.reader = "mean"
    /\ mon' = [mon EXCEPT !.reader = "delete",
                          !.slice = SubSeq(mon._mem_percentages, 1, mon.current_length)]
    /\ MonFrame

\* The slice is deleted and the average returned.
MemDelete ==
    /\ mon.pc = "memory" /\ mon.reader = "delete"
    /\ mon' = [mon EXCEPT
                  !.reader = "idle",
                  !._mem_percentages = DeleteSlice(@, mon.current_length),
                  !.returned = Append(@, [average |-> Some(ExactMean(mon.slice)),
                                          of |-> mon.slice, fresh |-> mon.fresh,
                                          left |-> Len(mon._mem_percentages)
                                                      - mon.current_length])]
    /\ MonFrame

InitMem ==
    /\ now = 0
    /\ stop_event = FALSE
    /\ IdleChildren /\ IdleSignal /\ IdleRun /\ IdleWait /\ IdlePerf
    /\ IdleRotate /\ IdleEbpf /\ IdleMeta
    /\ IdleMutex /\ IdleFactory /\ IdleSnapshot /\ IdleCycle /\ IdleSysProf /\ IdleTools
    /\ mon = [pc |-> "memory", _mem_percentages |-> <<>>, polled |-> 0, seen |-> 0,
              fresh |-> 0, reader |-> "idle", current_length |-> 0, slice |-> <<>>,
              returned |-> <<>>]

NextMem == PollMemory \/ MemCall \/ MemLen \/ MemMean \/ MemDelete

SpecMem == InitMem /\ [][NextMem]_vars

RECURSIVE Averaged(_)
Averaged(returned) ==
    IF returned = <<>> THEN <<>> ELSE Head(returned).of \o Averaged(Tail(returned))

\* C22: between calls, the samples covered by the returned averages followed
\* by the samples still listed are the samples taken, each once and in
\* order; a returned average is the mean of the samples it covers; a call
\* returns None exactly when no sample was taken since the call before it.
C22_MemSamplesOnce ==
    /\ mon.reader = "idle" =>
          Averaged(mon.returned) \o mon._mem_percentages
              = [n \in 1..mon.polled |-> RamPercent(n)]
    /\ \A i \in 1..Len(mon.returned) :
          /\ mon.returned[i].average = None <=> mon.returned[i].fresh = 0
          /\ mon.returned[i].average # None =>
                /\ mon.returned[i].of # <<>>
                /\ mon.returned[i].average = Some(ExactMean(mon.returned[i].of))

\* A sample appended between len() and the deletion survives the call and
\* is covered by the next one.
C22_Witness ==
    /\ mon.reader = "idle" /\ Len(mon.returned) = 2
    /\ mon.returned[1].of = <<RamPercent(1)>> /\ mon.returned[1].left = 1
    /\ mon.returned[2].of = <<RamPercent(2), RamPercent(3)>>
    /\ mon.returned[2].average = Some(<<50, 2>>)

\* ------------------------------------------------- the hardware metrics
\* A CSV line of the PMU helper is a header, an empty read or a data line.
\* Field k (counted from 0, as metric_values[k]) of data line n is the
\* sample [line |-> n, field |-> k]; its float value is HwValue.
MaxHwLines == 2
MaxHwReads == 2

LineKinds == {"header", "empty", "data"}
HwValue(sample) == 100 * sample.line + sample.field

\* The order of the appends, lines 177-182, with the fields 4..9.
AppendOrder ==
    <<"cpu_freq", "cpu_cpi", "cpu_tma_fe_bound", "cpu_tma_bad_spec", "cpu_tma_be_bound",
      "cpu_tma_retiring">>
FirstField == 4

\* The order of the means, lines 207-212, and of the resets, lines 214-219.
MeanOrder ==
    <<"cpu_freq", "cpu_cpi", "cpu_tma_fe_bound", "cpu_tma_be_bound", "cpu_tma_bad_spec",
      "cpu_tma_retiring">>

Series == {AppendOrder[i] : i \in 1..6}
NoSamples == [s \in Series |-> <<>>]
NoHwMetrics == [s \in Series |-> None]

RECURSIVE HwValues(_)
HwValues(q) == IF q = <<>> THEN <<>> ELSE <<HwValue(Head(q))>> \o HwValues(Tail(q))

HwAverage(slice) == [average |-> ExactMean(HwValues(slice)), of |-> slice]

\* Metrics(cpu, mem, hw[0], hw[1], hw[2], hw[4], hw[3], hw[5])
MetricsBadSpecFirst(hw_metrics) ==
    [cpu_freq |-> Some(hw_metrics[1]), cpu_cpi |-> Some(hw_metrics[2]),
     cpu_tma_fe_bound |-> Some(hw_metrics[3]), cpu_tma_be_bound |-> Some(hw_metrics[5]),
     cpu_tma_bad_spec |-> Some(hw_metrics[4]), cpu_tma_retiring |-> Some(hw_metrics[6])]

\* get_metrics, lines 66-75: the positional arguments of Metrics, whose
\* fields after mem_avg are cpu_freq, cpu_cpi, cpu_tma_fe_bound,
\* cpu_tma_be_bound, cpu_tma_bad_spec, cpu_tma_retiring (lines 22-32).
MetricsOf(hw_metrics) ==
    [cpu_freq |-> Some(hw_metrics[1]), cpu_cpi |-> Some(hw_metrics[2]),
     cpu_tma_fe_bound |-> Some(hw_metrics[3]), cpu_tma_be_bound |-> Some(hw_metrics[4]),
     cpu_tma_bad_spec |-> Some(hw_metrics[5]), cpu_tma_retiring |-> Some(hw_metrics[6])]

\* _continuously_poll_perfspect: readline, the header test, split and the
\* test of metric_values[0].
PollPerfspect(kind) ==
    /\ mon.pc = "hw" /\ ~stop_event
    /\ mon.poller.pc = "read" /\ Len(mon.lines) < MaxHwLines
    /\ mon' = [mon EXCEPT !.lines = Append(@, kind),
                          !.poller = IF kind = "data"
                                     THEN [pc |-> "append", line |-> Len(mon.lines) + 1, i |-> 1]
                                     ELSE @]
    /\ MonFrame

\* One of the six appends.
PollAppend ==
    /\ mon.pc = "hw" /\ mon.poller.pc = "append"
    /\ LET i == mon.poller.i
           sample == [line |-> mon.poller.line, field |-> FirstField + i - 1]
       IN mon' = [mon EXCEPT
                     !._hw_metrics[AppendOrder[i]] = Append(@, sample),
                     !.poller = IF i = 6 THEN [pc |-> "read", line |-> 0, i |-> 0]
                                ELSE [@ EXCEPT !.i = i + 1]]
    /\ MonFrame

\* get_metrics calls _get_hw_metrics.
HwCall ==
    /\ mon.pc = "hw" /\ mon.reader = "idle" /\ Len(mon.returned) < MaxHwReads
    /\ mon' = [mon EXCEPT !.reader = "len", !.metric_list = <<>>]
    /\ MonFrame

\* current_length = len(cpu_freq); [] when 0, and get_metrics then returns
\* Metrics without hardware fields.
HwLen ==
    /\ mon.pc = "hw" /\ mon.reader = "len"
    /\ LET n == Len(mon._hw_metrics["cpu_freq"]) IN
       mon' = [mon EXCEPT
                  !.current_length = n,
                  !.reader = IF n = 0 THEN "idle" ELSE "mean",
                  !.returned = IF n = 0 THEN Append(@, [exc |-> None, hw |-> NoHwMetrics])
                               ELSE @]
    /\ MonFrame

\* One of the six statistics.mean calls; the mean of an empty slice raises
\* StatisticsError.
HwMean ==
    /\ mon.pc = "hw" /\ mon.reader = "mean"
    /\ LET i == Len(mon.metric_list) + 1
           list == mon._hw_metrics[MeanOrder[i]]
           slice == SubSeq(list, 1, IF Len(list) < mon.current_length THEN Len(list)
                                    ELSE mon.current_length)
       IN mon' = IF slice = <<>>
                 THEN [mon EXCEPT !.reader = "idle",
                                  !.returned = Append(@, [exc |-> Some("StatisticsError"),
                                                          hw |-> NoHwMetrics])]
                 ELSE [mon EXCEPT !.metric_list = Append(@, HwAverage(slice)),
                                  !.reader = IF i = 6 THEN "reset" ELSE "mean",
                                  !.resets = 0]
    /\ MonFrame

\* One of the six assignments of a new empty list; after the last one
\* metric_list is returned and get_metrics builds Metrics.
HwReset ==
    /\ mon.pc = "hw" /\ mon.reader = "reset"
    /\ LET i == mon.resets + 1 IN
       mon' = [mon EXCEPT
                  !._hw_metrics[MeanOrder[i]] = <<>>,
                  !.resets = i,
                  !.reader = IF i = 6 THEN "idle" ELSE "reset",
                  !.returned = IF i = 6
                               THEN Append(@, [exc |-> None, hw |-> MetricsOf(mon.metric_list)])
                               ELSE @]
    /\ MonFrame

InitHw ==
    /\ now = 0
    /\ stop_event = FALSE
    /\ IdleChildren /\ IdleSignal /\ IdleRun /\ IdleWait /\ IdlePerf
    /\ IdleRotate /\ IdleEbpf /\ IdleMeta
    /\ IdleMutex /\ IdleFactory /\ IdleSnapshot /\ IdleCycle /\ IdleSysProf /\ IdleTools
    /\ mon = [pc |-> "hw", _hw_metrics |-> NoSamples, lines |-> <<>>,
              poller |-> [pc |-> "read", line |-> 0, i |-> 0],
              reader |-> "idle", current_length |-> 0, metric_list |-> <<>>,
              resets |-> 0, returned |-> <<>>]

NextHw ==
    \/ \E kind \in LineKinds : PollPerfspect(kind)
    \/ PollAppend
    \/ HwCall
    \/ HwLen
    \/ HwMean
    \/ HwReset

SpecHw == InitHw /\ [][NextHw]_vars

\* The lines whose samples a series of samples holds.
LinesOf(q) == {q[i].line : i \in 1..Len(q)}
HwReturned == {i \in 1..Len(mon.returned) : mon.returned[i].hw["cpu_freq"] # None}
Covered(i, s) == mon.returned[i].hw[s][1].of
HwQuiet == mon.reader = "idle" /\ mon.poller.pc = "read"
DataLines == {n \in 1..Len(mon.lines) : mon.lines[n] = "data"}

\* C23: no call fails; the six averages of a returned set cover the same
\* lines; and between calls and lines every data line read is, for each of
\* the six series, either covered by exactly one returned set or still
\* listed.
C23_HwSamplesOnce ==
    /\ \A i \in 1..Len(mon.returned) : mon.returned[i].exc = None
    /\ \A i \in HwReturned : \A s \in Series :
          LinesOf(Covered(i, s)) = LinesOf(Covered(i, "cpu_freq"))
    /\ HwQuiet =>
          \A n \in DataLines : \A s \in Series :
              Cardinality({i \in HwReturned : n \in LinesOf(Covered(i, s))})
                  + (IF n \in LinesOf(mon._hw_metrics[s]) THEN 1 ELSE 0) = 1

\* The field of a CSV line that each Metrics field reports.
FieldOf ==
    [cpu_freq |-> 4, cpu_cpi |-> 5, cpu_tma_fe_bound |-> 6, cpu_tma_bad_spec |-> 7,
     cpu_tma_be_bound |-> 8, cpu_tma_retiring |-> 9]

FromField(q, k) == \A j \in 1..Len(q) : q[j].field = k /\ q[j].line \in DataLines

\* C24: every series holds only samples of its field of data lines, and
\* every hardware field of a returned Metrics is the average of samples of
\* the field of the same meaning; headers and empty reads add no sample.
C24_FieldsKeepMeaning ==
    /\ \A s \in Series : FromField(mon._hw_metrics[s], FieldOf[s])
    /\ \A i \in HwReturned : \A s \in Series :
          /\ FromField(Covered(i, s), FieldOf[s])
          /\ Covered(i, s) # <<>>
          /\ mon.returned[i].hw[s][1].average = ExactMean(HwValues(Covered(i, s)))
    /\ HwQuiet /\ mon.returned = <<>> =>
          \A s \in Series : Len(mon._hw_metrics[s]) = Cardinality(DataLines)

\* A header, then a data line, then a returned Metrics whose bad-speculation
\* field averages field 7 and whose backend field averages field 8.
C24_Witness ==
    /\ mon.lines = <<"header", "data">>
    /\ Len(mon.returned) = 1 /\ HwReturned = {1}
    /\ Covered(1, "cpu_tma_bad_spec") = <<[line |-> 2, field |-> 7]>>
    /\ Covered(1, "cpu_tma_be_bound") = <<[line |-> 2, field |-> 8]>>
    /\ mon.returned[1].hw["cpu_tma_bad_spec"][1].average = <<207, 1>>

\* What holds of the hardware samples: none is covered twice.
HwNeverTwice ==
    HwQuiet =>
        \A n \in DataLines : \A s \in Series :
            Cardinality({i \in HwReturned : n \in LinesOf(Covered(i, s))})
                + (IF n \in LinesOf(mon._hw_metrics[s]) THEN 1 ELSE 0) <= 1

\* ============================================================ get_profilers
\* profilers/factory.py.  The registry (get_profilers_registry) lists, in
\* order, each profiler's name, whether its class is SystemProfiler, its
\* supported architectures and its supported profiling modes.  user_args
\* gives profiling_mode, each profiler's <name>_mode and perf_event; fails is
\* the set of profilers whose constructor raises.
ProfilersRegistry ==
    << [name |-> "Perf", system |-> TRUE, supported_archs |-> {"x86_64", "aarch64"},
        supported_profiling_modes |-> {"cpu"}],
       [name |-> "Java", system |-> FALSE, supported_archs |-> {"x86_64", "aarch64"},
        supported_profiling_modes |-> {"cpu", "allocation"}],
       [name |-> "PHP", system |-> FALSE, supported_archs |-> {"x86_64"},
        supported_profiling_modes |-> {"cpu"}] >>

ProfilerNames == {ProfilersRegistry[i].name : i \in 1..Len(ProfilersRegistry)}
ProfilerModes == {"enabled", "disabled", "none"}
ProfilingModes == {"cpu", "allocation", "none"}
Archs == {"x86_64", "aarch64"}

\* A test that lets "disabled" through.
IsModeNone(profile_mode) == profile_mode = "none"

\* utils.is_profiler_disabled
is_profiler_disabled(profile_mode) == profile_mode \in {"none", "disabled"}

NoProfilers ==
    [constructed |-> <<>>, system_profiler |-> "NoopProfiler",
     process_profilers_instances |-> <<>>, exited |-> FALSE]

\* The body of the loop over the registry, for the items from i on.
RECURSIVE RegistryLoop(_, _, _)
RegistryLoop(i, args, acc) ==
    IF i > Len(ProfilersRegistry) \/ acc.exited THEN acc
    ELSE LET config == ProfilersRegistry[i]
             built == [acc EXCEPT !.constructed = Append(@, config.name)]
         IN IF is_profiler_disabled(args.modes[config.name])
            THEN RegistryLoop(i + 1, args, acc)
            ELSE IF args.arch \notin config.supported_archs
            THEN RegistryLoop(i + 1, args, acc)
            ELSE IF args.profiling_mode \notin config.supported_profiling_modes
            THEN RegistryLoop(i + 1, args, acc)
            ELSE IF config.name \in args.fails
            THEN [built EXCEPT !.exited = TRUE]
            ELSE IF config.system
            THEN RegistryLoop(i + 1, args, [built EXCEPT !.system_profiler = config.name])
            ELSE IF args.perf_event
            THEN RegistryLoop(i + 1, args, built)
            ELSE RegistryLoop(i + 1, args,
                     [built EXCEPT !.process_profilers_instances = Append(@, config.name)])

get_profilers(args) ==
    IF args.profiling_mode # "none" THEN RegistryLoop(1, args, NoProfilers)
    ELSE NoProfilers

UserArgs ==
    [profiling_mode : ProfilingModes, arch : Archs, perf_event : BOOLEAN,
     modes : [ProfilerNames -> ProfilerModes], fails : SUBSET ProfilerNames]

FactoryFrame ==
    UNCHANGED <<now, stop_event, procs, _processes, sigVars, runVars, waitVars, perfVars,
                rotVars, ebpfVars, metaVars, mutex, mon, snap, gprofiler, sysprof,
                hwev, kmsg>>

GetProfilersCall ==
    /\ fac.pc = "called"
    /\ LET r == get_profilers(fac.args) IN
       fac' = [fac EXCEPT !.pc = IF r.exited THEN "exited" ELSE "returned", !.result = r]
    /\ FactoryFrame

InitFactory ==
    /\ now = 0
    /\ stop_event = FALSE
    /\ IdleChildren /\ IdleSignal /\ IdleRun /\ IdleWait /\ IdlePerf
    /\ IdleRotate /\ IdleEbpf /\ IdleMeta
    /\ IdleMutex /\ IdleMon /\ IdleSnapshot /\ IdleCycle /\ IdleSysProf /\ IdleTools
    /\ \E args \in UserArgs : fac = [pc |-> "called", args |-> args, result |-> NoProfilers]

NextFactory == GetProfilersCall

SpecFactory == InitFactory /\ [][NextFactory]_vars

\* ------------------------------------------------ properties of the factory
ConfigOf(name) ==
    CHOOSE c \in {ProfilersRegistry[i] : i \in 1..Len(ProfilersRegistry)} : c.name = name

\* Not disabled, on a supported architecture, in a supported profiling mode.
Wanted(name) ==
    /\ fac.args.modes[name] \notin {"none", "disabled"}
    /\ fac.args.arch \in ConfigOf(name).supported_archs
    /\ fac.args.profiling_mode \in ConfigOf(name).supported_profiling_modes

Elements(q) == {q[i] : i \in 1..Len(q)}
FactoryDone == fac.pc \in {"returned", "exited"}

\* C25: only wanted profilers are constructed and returned, and with
\* profiling_mode "none" nothing is constructed and the result is the no-op
\* system profiler with no process profilers.
C25_OnlyWantedProfilers ==
    FactoryDone =>
        /\ \A name \in Elements(fac.result.constructed) : Wanted(name)
        /\ \A name \in Elements(fac.result.process_profilers_instances) : Wanted(name)
        /\ fac.result.system_profiler # "NoopProfiler" => Wanted(fac.result.system_profiler)
        /\ fac.args.profiling_mode = "none" =>
              /\ fac.pc = "returned"
              /\ fac.result = NoProfilers

C25_Witness ==
    /\ fac.pc = "returned"
    /\ fac.args.profiling_mode = "cpu" /\ fac.args.arch = "aarch64" /\ ~fac.args.perf_event
    /\ fac.args.modes = [Perf |-> "disabled", Java |-> "enabled", PHP |-> "enabled"]
    /\ fac.result.constructed = <<"Java">>
    /\ fac.result.process_profilers_instances = <<"Java">>
    /\ fac.result.system_profiler = "NoopProfiler"

LanguageProfilers == {name \in ProfilerNames : ~ConfigOf(name).system}

\* C26: with a custom perf event no language profiler is constructed, none
\* is returned, and no language profiler's constructor ends the agent.
C26_CustomEventOnlyPerf ==
    (FactoryDone /\ fac.args.perf_event) =>
        /\ fac.result.process_profilers_instances = <<>>
        /\ Elements(fac.result.constructed) \cap LanguageProfilers = {}
        /\ fac.pc = "exited" =>
              fac.result.constructed[Len(fac.result.constructed)] \notin LanguageProfilers

\* What holds with a custom perf event: no language profiler is returned.
CustomEventReturnsOnlyPerf ==
    (fac.pc = "returned" /\ fac.args.perf_event) =>
        fac.result.process_profilers_instances = <<>>

\* ============================================== PythonEbpfProfiler.snapshot
\* profilers/python_ebpf.py, the loop of snapshot() over the PIDs of the
\* parsed dump.  faults says what happens to each PID's lookups: "none",
\* "vanished" (Process(pid) raises NoSuchProcess), "lookup_vanished" (a
\* lookup raises NoSuchProcess) or "lookup_error" (a lookup raises another
\* exception).  processes_to_profile is None or a set of PIDs.
MaxSnapshotPids == 2

SnapshotPids == 1..MaxSnapshotPids
Faults == {"none", "vanished", "lookup_vanished", "lookup_error"}

StacksOf(pid) == [stack |-> "main", pid |-> pid]

ProfileData(stacks, appid, app_metadata, container_name) ==
    [stacks |-> stacks, appid |-> appid, app_metadata |-> app_metadata,
     container_name |-> container_name]

\* The profile of a PID whose lookups all succeed.
FullProfile(pid) ==
    ProfileData(StacksOf(pid), Some("python: app.py"), Some("metadata"), Some("container"))

\* The body of "for pid in parsed", for the PIDs from pid on.
RECURSIVE SnapshotLoop(_, _, _, _)
SnapshotLoop(pid, faults, processes_to_profile, acc) ==
    IF pid > MaxSnapshotPids \/ acc.exc # None THEN acc
    ELSE IF faults[pid] = "vanished"
    THEN SnapshotLoop(pid + 1, faults, processes_to_profile,
             [acc EXCEPT !.profiles =
                 PutEntry(@, pid, ProfileData(StacksOf(pid), None, None, None))])
    ELSE IF processes_to_profile # None /\ pid \notin processes_to_profile[1]
    THEN SnapshotLoop(pid + 1, faults, processes_to_profile, acc)
    ELSE IF faults[pid] = "lookup_vanished"
    THEN SnapshotLoop(pid + 1, faults, processes_to_profile,
             [acc EXCEPT !.profiles =
                 PutEntry(@, pid, ProfileData(StacksOf(pid), None, None, None))])
    ELSE IF faults[pid] = "lookup_error"
    THEN [acc EXCEPT !.exc = Some("Exception")]
    ELSE SnapshotLoop(pid + 1, faults, processes_to_profile,
             [acc EXCEPT !.profiles = PutEntry(@, pid, FullProfile(pid))])

NoProfiles == [profiles |-> [x \in {} |-> {}], exc |-> None]

SnapshotFrame ==
    UNCHANGED <<now, stop_event, procs, _processes, sigVars, runVars, waitVars, perfVars,
                rotVars, ebpfVars, metaVars, mutex, mon, fac, gprofiler, sysprof,
                hwev, kmsg>>

SnapshotCall ==
    /\ snap.pc = "parsed"
    /\ LET r == SnapshotLoop(1, snap.faults, snap.processes_to_profile, NoProfiles) IN
       snap' = [snap EXCEPT !.pc = IF r.exc = None THEN "returned" ELSE "raised",
                            !.profiles = r.profiles, !.exc = r.exc]
    /\ SnapshotFrame

InitSnapshot ==
    /\ now = 0
    /\ stop_event = FALSE
    /\ IdleChildren /\ IdleSignal /\ IdleRun /\ IdleWait /\ IdlePerf
    /\ IdleRotate /\ IdleEbpf /\ IdleMeta
    /\ IdleMutex /\ IdleMon /\ IdleFactory /\ IdleCycle /\ IdleSysProf /\ IdleTools
    /\ \E faults \in [SnapshotPids -> Faults],
          filter \in {None} \cup {Some(s) : s \in SUBSET SnapshotPids} :
          snap = [pc |-> "parsed", faults |-> faults, processes_to_profile |-> filter,
                  profiles |-> NoProfiles.profiles, exc |-> None]

NextSnapshot == SnapshotCall

SpecSnapshot == InitSnapshot /\ [][NextSnapshot]_vars

Selected(pid) ==
    snap.processes_to_profile = None \/ pid \in snap.processes_to_profile[1]

\* C27: the snapshot never fails; a PID whose handling met an error is not
\* in the result; every other selected PID is in it with its full data.
C27_PidErrorDropsPid ==
    snap.pc # "parsed" =>
        /\ snap.exc = None
        /\ \A pid \in SnapshotPids :
              /\ snap.faults[pid] # "none" => pid \notin DOMAIN snap.profiles
              /\ (snap.faults[pid] = "none" /\ Selected(pid)) =>
                    /\ pid \in DOMAIN snap.profiles
                    /\ snap.profiles[pid] = FullProfile(pid)

\* What holds: a vanished process never fails the snapshot; its PID stays in
\* the result with its stacks and no metadata, and the other PIDs keep
\* their data.
VanishedKeepsStacks ==
    (snap.pc # "parsed" /\ \A pid \in SnapshotPids : snap.faults[pid] # "lookup_error") =>
        /\ snap.exc = None
        /\ \A pid \in SnapshotPids :
              /\ snap.faults[pid] = "vanished" =>
                    snap.profiles[pid] = ProfileData(StacksOf(pid), None, None, None)
              /\ (snap.faults[pid] = "none" /\ Selected(pid)) =>
                    snap.profiles[pid] = FullProfile(pid)

\* ======================================================= the agent's cycles
\* The orchestrator's cycle and the emitter.  Each cycle snapshots the
\* profilers (a profiler that fails contributes nothing), merges what they
\* produced, writes the collapsed text to a temporary file and renames it
\* to last_profile.col.  gprofiler.dir is the output directory: a function
\* from file names to contents; a content is the cycle that wrote it, the
\* stacks per PID, and whether the text was written completely.
MaxCycles == 2
CyclePids == {1, 2}

LastProfile == "last_profile.col"
TempProfile == "last_profile.col.tmp"

NoFiles == [x \in {} |-> {}]

CollapsedText(cycle, stacks) == [cycle |-> cycle, stacks |-> stacks, complete |-> TRUE]

\* Parses as collapsed stacks: a complete text, possibly without any stack.
ParsesAsCollapsed(content) == content.complete

\* An emitter that writes nothing when no PID had data.
EmitUnlessEmpty(dir, cycle, stacks) ==
    IF stacks = {} THEN dir ELSE PutEntry(dir, TempProfile, CollapsedText(cycle, stacks))

\* The emitter's write of the temporary file.
EmitTemp(dir, cycle, stacks) == PutEntry(dir, TempProfile, CollapsedText(cycle, stacks))

\* The rename: the temporary file replaces last_profile.col in one step.
EmitRename(dir) ==
    IF TempProfile \in DOMAIN dir
    THEN [name \in (DOMAIN dir \ {TempProfile}) \cup {LastProfile} |->
             IF name = LastProfile THEN dir[TempProfile] ELSE dir[name]]
    ELSE dir

CycleFrame ==
    UNCHANGED <<now, procs, _processes, sigVars, runVars, waitVars, perfVars,
                rotVars, ebpfVars, metaVars, mutex, mon, fac, snap, sysprof,
                hwev, kmsg>>

\* Steps 1-5: the profilers' snapshots and the merge; stacks is what the
\* profilers that did not fail produced.
CycleSnapshot(stacks) ==
    /\ gprofiler.pc = "snapshot" /\ ~stop_event
    /\ gprofiler' = [gprofiler EXCEPT !.pc = "emit", !.stacks = stacks]
    /\ UNCHANGED stop_event
    /\ CycleFrame

CycleEmitTemp ==
    /\ gprofiler.pc = "emit"
    /\ gprofiler' = [gprofiler EXCEPT
                        !.pc = "rename",
                        !.dir = EmitTemp(@, gprofiler.cycle, gprofiler.stacks)]
    /\ UNCHANGED stop_event
    /\ CycleFrame

\* The rename completes the cycle; a run of finite duration ends after
\* MaxCycles cycles.
CycleEmitRename ==
    /\ gprofiler.pc = "rename"
    /\ gprofiler' = [gprofiler EXCEPT
                        !.dir = EmitRename(@),
                        !.completed = gprofiler.cycle,
                        !.empty = IF gprofiler.stacks = {} THEN @ \cup {gprofiler.cycle} ELSE @,
                        !.cycle = @ + 1,
                        !.pc = IF gprofiler.cycle = MaxCycles THEN "exited" ELSE "snapshot"]
    /\ UNCHANGED stop_event
    /\ CycleFrame

\* Stopped is the only error that leaves the loop.
CycleStopped ==
    /\ gprofiler.pc = "snapshot" /\ stop_event
    /\ gprofiler' = [gprofiler EXCEPT !.pc = "exited"]
    /\ UNCHANGED stop_event
    /\ CycleFrame

CycleSetStop ==
    /\ gprofiler.pc # "idle" /\ ~stop_event
    /\ stop_event' = TRUE
    /\ UNCHANGED gprofiler
    /\ CycleFrame

InitCycle ==
    /\ now = 0
    /\ stop_event = FALSE
    /\ IdleChildren /\ IdleSignal /\ IdleRun /\ IdleWait /\ IdlePerf
    /\ IdleRotate /\ IdleEbpf /\ IdleMeta
    /\ IdleMutex /\ IdleMon /\ IdleFactory /\ IdleSnapshot /\ IdleSysProf /\ IdleTools
    /\ gprofiler = [pc |-> "snapshot", cycle |-> 1, completed |-> 0, stacks |-> {},
                    empty |-> {}, dir |-> NoFiles]

NextCycle ==
    \/ \E stacks \in SUBSET CyclePids : CycleSnapshot(stacks)
    \/ CycleEmitTemp
    \/ CycleEmitRename
    \/ CycleStopped
    \/ CycleSetStop

SpecCycle == InitCycle /\ [][NextCycle]_vars

\* C28: once a cycle has completed, last_profile.col exists, parses as
\* collapsed stacks and is the text of the last completed cycle, also when
\* that cycle had no data.
C28_ProfileEveryCycle ==
    gprofiler.completed > 0 =>
        /\ LastProfile \in DOMAIN gprofiler.dir
        /\ ParsesAsCollapsed(gprofiler.dir[LastProfile])
        /\ gprofiler.dir[LastProfile].cycle = gprofiler.completed
        /\ gprofiler.completed \in gprofiler.empty => gprofiler.dir[LastProfile].stacks = {}

\* A run whose first cycle had data and whose second had none.
C28_Witness ==
    /\ gprofiler.pc = "exited" /\ gprofiler.completed = MaxCycles
    /\ gprofiler.empty = {MaxCycles}
    /\ gprofiler.dir[LastProfile] = CollapsedText(MaxCycles, {})

\* ------------------------------------------------- the registry's contents
\* C29: the registry holds only live children: no child that has been
\* reaped is in it, and none at all once the exit handler has run.
C29_RegistryOnlyLive ==
    /\ \A i \in 1..Len(_processes) : ~procs[_processes[i]].reaped
    /\ orch = "exited" => _processes = <<>>

\* What holds of PerfProcess: a child reaped by stop() or killed by a failed
\* start() is no longer in the registry.
PerfReapedLeaveRegistry ==
    \A i \in 1..Len(_processes) : ~procs[_processes[i]].reaped

\* ---------------------------------------------------------- SystemProfiler
\* perf.py: the two perf samplers of a snapshot and the merge of their
\* outputs. sysprof holds the profiler's flags, the two _run_perf calls of
\* the snapshot in progress (the futures of the executor in smart mode, the
\* caller's own call otherwise), the two locals of _get_global_perf_result
\* and the arguments merge_global_perfs was last called with.
MaxPerfSnapshots == 2
PerfModes == {"fp", "dwarf", "smart"}

NoRun == [pc |-> "none", dwarf |-> FALSE, inject |-> FALSE, result |-> None]

\* __init__: None when the assertion of line 44 fails.
SystemProfiler(perf_mode, inject_jit) ==
    LET fp == perf_mode \in {"fp", "smart"}
        dwarf == perf_mode \in {"dwarf", "smart"}
    IN  IF fp \/ ~inject_jit
        THEN Some([pc |-> "ready", perf_mode |-> perf_mode,
                   _fp_perf |-> fp, _dwarf_perf |-> dwarf,
                   _inject_jit |-> inject_jit,
                   fp_future |-> NoRun, dwarf_future |-> NoRun,
                   fp_perf |-> None, dwarf_perf |-> None,
                   overlap |-> FALSE, snapshots |-> 0, merged |-> None])
        ELSE None

\* _run_perf entered with its argument: inject is computed on line 53.
_run_perf(self, dwarf) ==
    [pc |-> "record", dwarf |-> dwarf,
     inject |-> ~dwarf /\ self._inject_jit, result |-> None]

\* What perf script prints for a record file: the call graph method is that
\* of the record command, which line 59 chooses from the argument.
PerfScriptText(run, n) ==
    [callgraph |-> IF run.dwarf THEN "dwarf" ELSE "fp",
     jit |-> run.inject, snapshot |-> n]

InProgress(run) == run.pc \in {"record", "inject", "script"}
Finished(run) == run.pc \in {"done", "raised"}
Started(run) == run.pc # "none"

\* One run_process of a _run_perf call; ok is whether it returned.
RunPerfStep(run, ok, n) ==
    IF ~ok THEN [run EXCEPT !.pc = "raised"]
    ELSE IF run.pc = "record"
    THEN [run EXCEPT !.pc = IF run.inject THEN "inject" ELSE "script"]
    ELSE IF run.pc = "inject" THEN [run EXCEPT !.pc = "script"]
    ELSE [run EXCEPT !.pc = "done", !.result = Some(PerfScriptText(run, n))]

\* The tuple of line 110 with the results in the other order.
ConcurrentResultsFpFirst(fp_future, dwarf_future) ==
    <<fp_future.result, dwarf_future.result>>

\* The tuple _run_fp_and_dwarf_concurrent_perfs returns.
ConcurrentResults(fp_future, dwarf_future) ==
    <<dwarf_future.result, fp_future.result>>

\* merge_global_perfs(fp_perf, dwarf_perf) as called on line 100: the
\* arguments by position, and which runs were in progress at the call.
MergeCall(self) ==
    [fp |-> self.fp_perf, dwarf |-> self.dwarf_perf,
     during |-> {k \in {"fp", "dwarf"} :
                    InProgress(IF k = "fp" THEN self.fp_future
                               ELSE self.dwarf_future)},
     overlap |-> self.overlap]

SysProfFrame ==
    UNCHANGED <<now, stop_event, procs, _processes, sigVars, runVars, waitVars, perfVars,
                rotVars, ebpfVars, metaVars, mutex, mon, fac, snap, gprofiler,
                hwev, kmsg>>

\* Lines 92-99 up to the first call or submit.
GetGlobalPerfResult ==
    /\ sysprof.pc = "ready"
    /\ sysprof.snapshots < MaxPerfSnapshots
    /\ LET s == [sysprof EXCEPT !.fp_perf = None, !.dwarf_perf = None,
                                !.fp_future = NoRun, !.dwarf_future = NoRun,
                                !.overlap = FALSE]
       IN  sysprof' =
             IF ~s._fp_perf
             THEN [s EXCEPT !.pc = "dwarf_only",
                            !.dwarf_future = _run_perf(s, TRUE)]
             ELSE IF ~s._dwarf_perf
             THEN [s EXCEPT !.pc = "fp_only",
                            !.fp_future = _run_perf(s, FALSE)]
             ELSE [s EXCEPT !.pc = "submit_dwarf",
                            !.fp_future = _run_perf(s, FALSE)]
    /\ SysProfFrame

\* Line 109.
SubmitDwarf ==
    /\ sysprof.pc = "submit_dwarf"
    /\ sysprof' = [sysprof EXCEPT !.pc = "shutdown",
                                  !.dwarf_future = _run_perf(sysprof, TRUE),
                                  !.overlap = @ \/ InProgress(sysprof.fp_future)]
    /\ SysProfFrame

\* A step of the FP sampler's _run_perf.
FpRunStep(ok) ==
    /\ InProgress(sysprof.fp_future)
    /\ sysprof' = [sysprof EXCEPT !.fp_future =
                       RunPerfStep(@, ok, sysprof.snapshots + 1)]
    /\ SysProfFrame

\* A step of the DWARF sampler's _run_perf.
DwarfRunStep(ok) ==
    /\ InProgress(sysprof.dwarf_future)
    /\ sysprof' = [sysprof EXCEPT !.dwarf_future =
                       RunPerfStep(@, ok, sysprof.snapshots + 1)]
    /\ SysProfFrame

\* Line 95: the call returns into dwarf_perf, or raises.
DwarfOnlyReturn ==
    /\ sysprof.pc = "dwarf_only"
    /\ Finished(sysprof.dwarf_future)
    /\ sysprof' = IF sysprof.dwarf_future.pc = "raised"
                  THEN [sysprof EXCEPT !.pc = "raised"]
                  ELSE [sysprof EXCEPT !.pc = "merge",
                                       !.dwarf_perf = sysprof.dwarf_future.result]
    /\ SysProfFrame

\* Line 97: the call returns into fp_perf, or raises.
FpOnlyReturn ==
    /\ sysprof.pc = "fp_only"
    /\ Finished(sysprof.fp_future)
    /\ sysprof' = IF sysprof.fp_future.pc = "raised"
                  THEN [sysprof EXCEPT !.pc = "raised"]
                  ELSE [sysprof EXCEPT !.pc = "merge",
                                       !.fp_perf = sysprof.fp_future.result]
    /\ SysProfFrame

\* The end of the with block (the executor's shutdown waits for both
\* workers), line 110 and the unpacking of line 99.
ConcurrentReturn ==
    /\ sysprof.pc = "shutdown"
    /\ Finished(sysprof.fp_future) /\ Finished(sysprof.dwarf_future)
    /\ sysprof' =
         IF "raised" \in {sysprof.fp_future.pc, sysprof.dwarf_future.pc}
         THEN [sysprof EXCEPT !.pc = "raised"]
         ELSE LET t == ConcurrentResults(sysprof.fp_future, sysprof.dwarf_future)
              IN  [sysprof EXCEPT !.pc = "merge",
                                  !.dwarf_perf = t[1], !.fp_perf = t[2]]
    /\ SysProfFrame

\* Line 100.
MergeGlobalPerfs ==
    /\ sysprof.pc = "merge"
    /\ sysprof' = [sysprof EXCEPT !.pc = "ready", !.snapshots = @ + 1,
                                  !.merged = Some(MergeCall(sysprof))]
    /\ SysProfFrame

\* A failed sampler's exception leaves snapshot().
SnapshotRaises ==
    /\ sysprof.pc = "raised"
    /\ sysprof' = [sysprof EXCEPT !.pc = "ready", !.snapshots = @ + 1]
    /\ SysProfFrame

InitSysProf ==
    /\ now = 0
    /\ stop_event = FALSE
    /\ IdleChildren /\ IdleSignal /\ IdleRun /\ IdleWait /\ IdlePerf
    /\ IdleRotate /\ IdleEbpf /\ IdleMeta
    /\ IdleMutex /\ IdleMon /\ IdleFactory /\ IdleSnapshot /\ IdleCycle /\ IdleTools
    /\ \E perf_mode \in PerfModes, inject_jit \in BOOLEAN :
          /\ SystemProfiler(perf_mode, inject_jit) # None
          /\ sysprof = SystemProfiler(perf_mode, inject_jit)[1]

NextSysProf ==
    \/ GetGlobalPerfResult
    \/ SubmitDwarf
    \/ \E ok \in BOOLEAN : FpRunStep(ok)
    \/ \E ok \in BOOLEAN : DwarfRunStep(ok)
    \/ DwarfOnlyReturn
    \/ FpOnlyReturn
    \/ ConcurrentReturn
    \/ MergeGlobalPerfs
    \/ SnapshotRaises

SpecSysProf == InitSysProf /\ [][NextSysProf]_vars

WantsFp == sysprof.perf_mode \in {"fp", "smart"}
WantsDwarf == sysprof.perf_mode \in {"dwarf", "smart"}

\* The text argument is absent when its sampler is not wanted and is that
\* sampler's output otherwise.
InputOf(text, wanted, callgraph) ==
    IF wanted THEN text # None /\ text[1].callgraph = callgraph
    ELSE text = None

\* C30: the FP sampler runs exactly in the modes fp and smart and the DWARF
\* sampler exactly in dwarf and smart; in smart mode both are started
\* without waiting for either; the merge is called only when no sampler is
\* still running, with the FP sampler's text as its FP input and the DWARF
\* sampler's text as its DWARF input.
C30_SamplersByMode ==
    /\ Started(sysprof.fp_future) => WantsFp
    /\ Started(sysprof.dwarf_future) => WantsDwarf
    /\ sysprof.pc \in {"fp_only", "dwarf_only", "shutdown", "merge"} =>
          /\ Started(sysprof.fp_future) <=> WantsFp
          /\ Started(sysprof.dwarf_future) <=> WantsDwarf
    /\ sysprof.pc = "merge" =>
          /\ InputOf(sysprof.fp_perf, WantsFp, "fp")
          /\ InputOf(sysprof.dwarf_perf, WantsDwarf, "dwarf")
    /\ sysprof.merged # None =>
          /\ InputOf(sysprof.merged[1].fp, WantsFp, "fp")
          /\ InputOf(sysprof.merged[1].dwarf, WantsDwarf, "dwarf")
          /\ sysprof.merged[1].during = {}

\* Smart mode: the two samplers were running at once, both finished, and
\* the merge received the two texts.
C30_Witness ==
    /\ sysprof.perf_mode = "smart"
    /\ sysprof.merged # None
    /\ sysprof.merged[1].overlap
    /\ sysprof.merged[1].fp # None /\ sysprof.merged[1].fp[1].callgraph = "fp"
    /\ sysprof.merged[1].dwarf # None
    /\ sysprof.merged[1].dwarf[1].callgraph = "dwarf"

\* ------------------------------------------- the filter of snapshot()
\* C31: when processes_to_profile is set, every PID of the returned
\* profiles belongs to it.
C31_ResultWithinFilter ==
    (snap.pc = "returned" /\ snap.processes_to_profile # None) =>
        DOMAIN snap.profiles \subseteq snap.processes_to_profile[1]

\* What holds: a returned PID outside processes_to_profile is one whose
\* Process(pid) raised NoSuchProcess, before the filter of line 308.
OutsideFilterOnlyVanished ==
    (snap.pc = "returned" /\ snap.processes_to_profile # None) =>
        \A pid \in DOMAIN snap.profiles :
            pid \in snap.processes_to_profile[1] \/ snap.faults[pid] = "vanished"

\* ------------------------------------------- wait_for_file_by_prefix
WaitRaised == rot.exc \in {Some("TimeoutError"), Some("StopEventSetException")}

\* C32: when wait_for_file_by_prefix ends it has returned the last by name
\* of the files that matched, every other matching file is deleted and the
\* returned path is the only match left; on timeout or stop it has deleted
\* nothing.
C32_WaitLeavesOneFile ==
    rot.pc # "idle" /\ rot.atReturn # None =>
        IF WaitRaised THEN rot.atReturn = Some({})
        ELSE /\ rot.exc \notin {Some("FileNotFoundError"), Some("IndexError")}
             /\ rot.perf_data # None =>
                   /\ ConsumedData = LastByName(rot.output_files)
                   /\ rot.atReturn = Some({ConsumedData})

\* The same when perf switches its output only in answer to the rotation's
\* own signal.
WaitLeavesOneFileUntimed == rot.pc # "idle" /\ ~rot.stray => C32_WaitLeavesOneFile

\* ================================================= validate_event_with_fallback
\* utils/hw_events.py.  A perf event string is a sequence of pieces: the
\* characters ":" and "p", and the pieces "cycles", "ocr." and "x", none of
\* which ends in ":" or "p".  hwev is the call: its inputs, the argument
\* lists test_perf_event_accessible was called with, in order, and how the
\* call ended.
MaxEventLen == 2

Pieces == {"cycles", "ocr.", "x", "p", ":"}
EventNames == UNION {[1..n -> Pieces] : n \in 1..MaxEventLen}
EventTypes == {"hardware", "software", "tracepoint", "cache", "custom", "unknown"}
Hypervisors == {"NONE", "KVM"}

\* str.endswith(suffix)
EndsWith(s, suffix) ==
    /\ Len(s) >= Len(suffix)
    /\ SubSeq(s, Len(s) - Len(suffix) + 1, Len(s)) = suffix

\* s[:-len(suffix)] for a string that ends with suffix
WithoutSuffix(s, suffix) == SubSeq(s, 1, Len(s) - Len(suffix))

\* str.rstrip(chars): trailing characters that are in chars are removed
RECURSIVE rstrip(_, _)
rstrip(s, chars) ==
    IF s # <<>> /\ s[Len(s)] \in chars THEN rstrip(SubSeq(s, 1, Len(s) - 1), chars)
    ELSE s

get_precise_modifier(event_name, event_type, hypervisor_vendor) ==
    IF event_type \in {"software", "tracepoint"} THEN <<>>
    ELSE IF hypervisor_vendor # "NONE" THEN <<":", "p">>
    ELSE IF event_type \in {"hardware", "cache", "custom"}
    THEN IF event_name = <<"cycles">> THEN <<":", "p", "p", "p">>
         ELSE IF event_name[1] = "ocr." THEN <<":", "p">>
         ELSE <<":", "p", "p">>
    ELSE <<>>

\* validate_and_get_event_args: ["-e", f"{event_name}{modifier}"]
EventArgs(event_name, event_type, hypervisor_vendor) ==
    <<"-e", event_name \o get_precise_modifier(event_name, event_type, hypervisor_vendor)>>

\* Line 282 read as the removal of the two characters ":p".
FallbackWithoutSuffix(event_args) == <<"-e", WithoutSuffix(event_args[2], <<":", "p">>)>>

\* Lines 282-283.
FallbackArgs(event_args) == <<"-e", rstrip(event_args[2], {":", "p"})>>

NewValidation(event_name, event_type, hypervisor_vendor) ==
    [pc |-> "test", event_name |-> event_name, event_type |-> event_type,
     hypervisor_vendor |-> hypervisor_vendor,
     event_args |-> EventArgs(event_name, event_type, hypervisor_vendor),
     tests |-> <<>>, result |-> None, exc |-> None]

HwEventsFrame ==
    UNCHANGED <<now, stop_event, procs, _processes, sigVars, runVars, waitVars, perfVars,
                rotVars, ebpfVars, metaVars, mutex, mon, fac, snap, gprofiler, sysprof,
                kmsg>>

\* Lines 268-276 and, with no fallback, 290-292: the first test and what
\* follows it.
ValidateFirstTest(accessible) ==
    /\ hwev.pc = "test"
    /\ LET is_vm == hwev.hypervisor_vendor # "NONE"
           tested == [hwev EXCEPT !.tests = Append(@, hwev.event_args)]
       IN  hwev' =
             IF accessible
             THEN [tested EXCEPT !.pc = "returned", !.result = Some(hwev.event_args)]
             ELSE IF is_vm /\ EndsWith(hwev.event_args[2], <<":", "p">>)
             THEN [tested EXCEPT !.pc = "fallback"]
             ELSE [tested EXCEPT !.pc = "raised", !.exc = Some("RuntimeError")]
    /\ HwEventsFrame

\* Lines 282-292: the retry.
ValidateFallbackTest(accessible) ==
    /\ hwev.pc = "fallback"
    /\ LET fallback_args == FallbackArgs(hwev.event_args)
           tested == [hwev EXCEPT !.tests = Append(@, fallback_args)]
       IN  hwev' =
             IF accessible
             THEN [tested EXCEPT !.pc = "returned", !.result = Some(fallback_args)]
             ELSE [tested EXCEPT !.pc = "raised", !.exc = Some("RuntimeError")]
    /\ HwEventsFrame

InitHwEvents ==
    /\ now = 0
    /\ stop_event = FALSE
    /\ IdleChildren /\ IdleSignal /\ IdleRun /\ IdleWait /\ IdlePerf
    /\ IdleRotate /\ IdleEbpf /\ IdleMeta
    /\ IdleMutex /\ IdleMon /\ IdleFactory /\ IdleSnapshot /\ IdleCycle /\ IdleSysProf
    /\ IdleKmsg
    /\ \E event_name \in EventNames, event_type \in EventTypes,
          hypervisor_vendor \in Hypervisors :
          hwev = NewValidation(event_name, event_type, hypervisor_vendor)

NextHwEvents ==
    \/ \E accessible \in BOOLEAN : ValidateFirstTest(accessible)
    \/ \E accessible \in BOOLEAN : ValidateFallbackTest(accessible)

SpecHwEvents == InitHwEvents /\ [][NextHwEvents]_vars

OnVm == hwev.hypervisor_vendor # "NONE"
HasModifierP ==
    get_precise_modifier(hwev.event_name, hwev.event_type, hwev.hypervisor_vendor) = <<":", "p">>

\* C33: on a VM the retry is made with the event string less its trailing
\* ":p" and nothing else changed, and it is made whenever the event with
\* the ":p" modifier was not accessible; on bare metal there is one test
\* and an inaccessible event raises RuntimeError.
C33_FallbackStripsModifier ==
    hwev.pc # "idle" =>
        /\ Len(hwev.tests) >= 2 =>
              /\ OnVm
              /\ hwev.tests[2][2] \o <<":", "p">> = hwev.tests[1][2]
        /\ (OnVm /\ HasModifierP /\ hwev.pc = "raised") => Len(hwev.tests) = 2
        /\ ~OnVm =>
              /\ Len(hwev.tests) <= 1
              /\ hwev.pc \in {"returned", "raised"} => Len(hwev.tests) = 1
              /\ hwev.pc = "raised" => hwev.exc = Some("RuntimeError")

\* The same for the event names that end neither in "p" nor in ":".
FallbackStripsPlainNames ==
    (hwev.pc # "idle" /\ hwev.event_name[Len(hwev.event_name)] \notin {":", "p"}) =>
        C33_FallbackStripsModifier

\* ================================================== KernelMessagePublisher
\* kernel_messages.py.  The kernel appends records to /dev/kmsg; a record
\* that is overwritten before it is read makes the next read fail with
\* EPIPE (Documentation/ABI/testing/dev-kmsg).  kmsg holds the unread
\* records, the publisher's subscribers, the locals of the call in
\* progress, and the history: the calls owed for the records read (due),
\* those owed for the records the generator went on to yield (dueYielded),
\* and every call of a subscriber made (delivered, <<message, subscriber,
\* raised>>).
MaxKmsgRecords == 2
MaxKmsgCalls == 2
MaxSubscribers == 2

Callbacks == 1..MaxSubscribers

\* The calls that deliver the messages ms to the subscribers subs: message
\* by message, each to every subscriber in order.
RECURSIVE Deliveries(_, _)
Deliveries(ms, subs) ==
    IF ms = <<>> THEN <<>>
    ELSE [k \in 1..Len(subs) |-> <<Head(ms), subs[k]>>] \o Deliveries(Tail(ms), subs)

NewPublisher ==
    [pc |-> "ready", unread |-> <<>>, overrun |-> FALSE, written |-> 0,
     subscribers |-> <<>>, messages |-> <<>>, i |-> 1, j |-> 1,
     due |-> <<>>, dueYielded |-> <<>>, delivered |-> <<>>, calls |-> 0, exc |-> None]

KmsgFrame ==
    UNCHANGED <<now, stop_event, procs, _processes, sigVars, runVars, waitVars, perfVars,
                rotVars, ebpfVars, metaVars, mutex, mon, fac, snap, gprofiler, sysprof,
                hwev>>

\* printk: one more record.
KernelLogs ==
    /\ kmsg.written < MaxKmsgRecords
    /\ kmsg' = [kmsg EXCEPT !.written = @ + 1, !.unread = Append(@, kmsg.written + 1)]
    /\ KmsgFrame

\* The ring buffer wraps: the oldest unread record is overwritten.
KernelOverwrites ==
    /\ kmsg.unread # <<>>
    /\ kmsg' = [kmsg EXCEPT !.unread = Tail(@), !.overrun = TRUE]
    /\ KmsgFrame

\* subscribe(callback)
Subscribe(callback) ==
    /\ kmsg.pc = "ready"
    /\ \A k \in 1..Len(kmsg.subscribers) : kmsg.subscribers[k] # callback
    /\ kmsg' = [kmsg EXCEPT !.subscribers = Append(@, callback)]
    /\ KmsgFrame

\* handle_new_messages: the first next() of the generator enters
\* iter_new_messages with messages = [].
HandleNewMessages ==
    /\ kmsg.pc = "ready"
    /\ kmsg.calls < MaxKmsgCalls
    /\ kmsg' = [kmsg EXCEPT !.pc = "read", !.messages = <<>>, !.i = 1, !.j = 1,
                            !.calls = @ + 1, !.exc = None]
    /\ KmsgFrame

\* One os.read of the loop of lines 27-29 and the handler of lines 30-32:
\* a record is appended to messages; EAGAIN ends the loop; another error is
\* raised again and leaves handle_new_messages.
ReadMessage ==
    /\ kmsg.pc = "read"
    /\ kmsg' =
         IF kmsg.overrun
         THEN [kmsg EXCEPT !.pc = "ready", !.overrun = FALSE, !.exc = Some("OSError"),
                           !.due = @ \o Deliveries(kmsg.messages, kmsg.subscribers)]
         ELSE IF kmsg.unread = <<>>
         THEN [kmsg EXCEPT !.pc = "deliver",
                           !.due = @ \o Deliveries(kmsg.messages, kmsg.subscribers),
                           !.dueYielded = @ \o Deliveries(kmsg.messages, kmsg.subscribers)]
         ELSE [kmsg EXCEPT !.unread = Tail(@),
                           !.messages = Append(@, Head(kmsg.unread))]
    /\ KmsgFrame

\* Lines 51-56: the next subscriber is called with the message's text; an
\* Exception it raises is logged.
CallSubscriber(raises) ==
    /\ kmsg.pc = "deliver"
    /\ kmsg.i <= Len(kmsg.messages)
    /\ kmsg.j <= Len(kmsg.subscribers)
    /\ kmsg' = [kmsg EXCEPT !.delivered =
                    Append(@, <<kmsg.messages[kmsg.i], kmsg.subscribers[kmsg.j], raises>>),
                            !.j = @ + 1]
    /\ KmsgFrame

\* The inner loop is exhausted: the next message is taken from the generator.
NextMessage ==
    /\ kmsg.pc = "deliver"
    /\ kmsg.i <= Len(kmsg.messages)
    /\ kmsg.j > Len(kmsg.subscribers)
    /\ kmsg' = [kmsg EXCEPT !.i = @ + 1, !.j = 1]
    /\ KmsgFrame

\* The generator is exhausted: handle_new_messages returns.
HandleReturns ==
    /\ kmsg.pc = "deliver"
    /\ kmsg.i > Len(kmsg.messages)
    /\ kmsg' = [kmsg EXCEPT !.pc = "ready"]
    /\ KmsgFrame

InitKmsg ==
    /\ now = 0
    /\ stop_event = FALSE
    /\ IdleChildren /\ IdleSignal /\ IdleRun /\ IdleWait /\ IdlePerf
    /\ IdleRotate /\ IdleEbpf /\ IdleMeta
    /\ IdleMutex /\ IdleMon /\ IdleFactory /\ IdleSnapshot /\ IdleCycle /\ IdleSysProf
    /\ IdleHwEvents
    /\ kmsg = NewPublisher

NextKmsg ==
    \/ KernelLogs
    \/ KernelOverwrites
    \/ \E callback \in Callbacks : Subscribe(callback)
    \/ HandleNewMessages
    \/ ReadMessage
    \/ \E raises \in BOOLEAN : CallSubscriber(raises)
    \/ NextMessage
    \/ HandleReturns

SpecKmsg == InitKmsg /\ [][NextKmsg]_vars

Delivered == [k \in 1..Len(kmsg.delivered) |-> <<kmsg.delivered[k][1], kmsg.delivered[k][2]>>]

IsPrefix(s, t) == Len(s) <= Len(t) /\ SubSeq(t, 1, Len(s)) = s


\* C34: every message read is delivered to every subscriber, the messages
\* in read order and the subscribers in subscription order, whatever the
\* subscribers raise: the calls made are always a prefix of the calls owed
\* and are all of them once handle_new_messages has ended.
C34_EveryMessageDelivered ==
    kmsg.pc # "idle" =>
        /\ IsPrefix(Delivered, kmsg.due)
        /\ kmsg.pc = "ready" => Delivered = kmsg.due

\* What holds: the messages the generator yields are delivered so; a
\* subscriber that raises stops neither the other subscribers nor the
\* later messages.
YieldedMessagesDelivered ==
    kmsg.pc # "idle" =>
        /\ IsPrefix(Delivered, kmsg.dueYielded)
        /\ kmsg.pc = "ready" => Delivered = kmsg.dueYielded

\* ======================================== SystemMetricsMonitor's lifecycle
\* system_metrics.py: start(), stop() and the memory polling thread, with
\* no perfspect path.  mon holds _thread (None or the thread), the thread's
\* position (check: the loop test; poll: inside psutil.virtual_memory(),
\* which takes as long as it takes; wait: inside stop_event.wait; dead),
\* the time its wait ends, the caller's position and, as history, the last
\* call of start or stop with the state it found, and the time the thread
\* has spent waiting while the stop event was set.
\* STOP_TIMEOUT_SECONDS = 2
STOP_TIMEOUT_SECONDS == 20
\* DEFAULT_POLLING_INTERVAL_SECONDS = 5
DEFAULT_POLLING_INTERVAL_SECONDS == 50
MaxMonNow == 70

NewMonitor ==
    [pc |-> "ready", _thread |-> None, thread |-> "none", wake |-> 0,
     join_until |-> 0,
     last |-> [name |-> "none", outcome |-> "none", had_thread |-> FALSE,
               was_set |-> FALSE, took |-> 0],
     waited_after_stop |-> 0]

\* time.sleep(timeout) seen as a wait: it ends when the time is up.
SleepReturns(set, t, until) == t >= until

\* Event.wait(timeout) returns once the event is set or the time is up.
EventWaitReturns(set, t, until) == set \/ t >= until

MonLifeFrame ==
    UNCHANGED <<procs, _processes, sigVars, runVars, waitVars, perfVars,
                rotVars, ebpfVars, metaVars, mutex, fac, snap, gprofiler, sysprof,
                hwev, kmsg>>

CallRecord(name, outcome, took) ==
    [name |-> name, outcome |-> outcome, had_thread |-> mon._thread # None,
     was_set |-> stop_event, took |-> took]

\* start(): the two assertions, then the thread is created and started.
MonitorStart ==
    /\ mon.pc = "ready"
    /\ mon' = IF mon._thread = None /\ ~stop_event
              THEN [mon EXCEPT !._thread = Some("Thread"), !.thread = "check",
                               !.last = CallRecord("start", "returned", 0)]
              ELSE [mon EXCEPT !.last = CallRecord("start", "AssertionError", 0)]
    /\ UNCHANGED <<now, stop_event>>
    /\ MonLifeFrame

\* while not self._stop_event.is_set()
ThreadChecksStop ==
    /\ mon.thread = "check"
    /\ mon' = [mon EXCEPT !.thread = IF stop_event THEN "dead" ELSE "poll"]
    /\ UNCHANGED <<now, stop_event>>
    /\ MonLifeFrame

\* psutil.virtual_memory() returns, the sample is appended and
\* stop_event.wait(timeout=polling_rate_seconds) begins.
ThreadPolls ==
    /\ mon.thread = "poll"
    /\ mon' = [mon EXCEPT !.thread = "wait",
                          !.wake = now + DEFAULT_POLLING_INTERVAL_SECONDS]
    /\ UNCHANGED <<now, stop_event>>
    /\ MonLifeFrame

\* stop_event.wait returns.
ThreadWakes ==
    /\ mon.thread = "wait"
    /\ EventWaitReturns(stop_event, now, mon.wake)
    /\ mon' = [mon EXCEPT !.thread = "check"]
    /\ UNCHANGED <<now, stop_event>>
    /\ MonLifeFrame

\* stop(): the two assertions, then self._thread.join(STOP_TIMEOUT_SECONDS)
\* begins.
MonitorStop ==
    /\ mon.pc = "ready"
    /\ mon' = IF mon._thread # None /\ stop_event
              THEN [mon EXCEPT !.pc = "join", !.join_until = now + STOP_TIMEOUT_SECONDS,
                               !.last = CallRecord("stop", "joining", 0)]
              ELSE [mon EXCEPT !.last = CallRecord("stop", "AssertionError", 0)]
    /\ UNCHANGED <<now, stop_event>>
    /\ MonLifeFrame

\* join returns, when the thread has ended or the timeout has passed;
\* lines 146-148.
MonitorJoined ==
    /\ mon.pc = "join"
    /\ mon.thread = "dead" \/ now >= mon.join_until
    /\ LET took == now - (mon.join_until - STOP_TIMEOUT_SECONDS) IN
       mon' = IF mon.thread # "dead"
              THEN [mon EXCEPT !.pc = "ready", !.last.outcome = "ThreadStopTimeoutError",
                               !.last.took = took]
              ELSE [mon EXCEPT !.pc = "ready", !._thread = None, !.thread = "none",
                               !.last.outcome = "returned", !.last.took = took]
    /\ UNCHANGED <<now, stop_event>>
    /\ MonLifeFrame

MonitorSetStop ==
    /\ ~stop_event
    /\ stop_event' = TRUE
    /\ UNCHANGED <<now, mon>>
    /\ MonLifeFrame

\* A second passes, unless a step is due at once: the loop test, a wait or
\* a join that has ended.
MonitorTick ==
    /\ now < MaxMonNow
    /\ mon.thread # "check"
    /\ ~(mon.thread = "wait" /\ EventWaitReturns(stop_event, now, mon.wake))
    /\ ~(mon.pc = "join" /\ (mon.thread = "dead" \/ now >= mon.join_until))
    /\ now' = now + 10
    /\ mon' = [mon EXCEPT !.waited_after_stop =
                   IF mon.thread = "wait" /\ stop_event THEN @ + 10 ELSE @]
    /\ UNCHANGED stop_event
    /\ MonLifeFrame

InitMonitor ==
    /\ now = 0
    /\ stop_event = FALSE
    /\ IdleChildren /\ IdleSignal /\ IdleRun /\ IdleWait /\ IdlePerf
    /\ IdleRotate /\ IdleEbpf /\ IdleMeta
    /\ IdleMutex /\ IdleFactory /\ IdleSnapshot /\ IdleCycle /\ IdleSysProf /\ IdleTools
    /\ mon = NewMonitor

NextMonitor ==
    \/ MonitorStart
    \/ ThreadChecksStop
    \/ ThreadPolls
    \/ ThreadWakes
    \/ MonitorStop
    \/ MonitorJoined
    \/ MonitorSetStop
    \/ MonitorTick

SpecMonitor == InitMonitor /\ [][NextMonitor]_vars

StopEnded == ebpf.op = "stop" /\ ebpf.pc # "reap"

\* C36: stop() never raises, whatever the state of the profiler it is
\* called on.
C36_StopNeverRaises == StopEnded => ebpf.exc = None

\* What holds: stop() raises only the AssertionError of
\* _unregister_process_selectors, and only on a profiler that owns no
\* PyPerf; on a running profiler it does not raise.
StopRaisesOnlyWhenNotRunning ==
    (StopEnded /\ ebpf.exc # None) =>
        /\ ebpf.exc = Some([name |-> "AssertionError"])
        /\ ebpf.process = None /\ ebpf.process_selector = None

\* --------------------------------------------- the child a start() spawned
\* C37: however PerfProcess.start() ends, the child it spawned is owned by
\* the supervisor or has been killed.
C37_StartOwnsOrKills ==
    [][CalledStart =>
          \/ perf'._process = Some(Len(procs'))
          \/ Has(Spawned.log, "SIGKILL")
      ]_vars

\* What holds of PerfProcess.start(): the child is owned or killed unless
\* the wait was ended by the stop event.
PerfStartLeaksOnlyOnStop ==
    [][(CalledStart /\ lastOp'.exc # Some("StopEventSetException")) =>
          \/ perf'._process = Some(Len(procs'))
          \/ Has(Spawned.log, "SIGKILL")
      ]_vars

\* The same of PythonEbpfProfiler.start().
EbpfStartLeaksOnlyOnStop ==
    [][(CalledStart /\ ebpf'.op = "start"
          /\ ebpf'.exc # Some([name |-> "StopEventSetException"])) =>
          \/ ebpf'.process = Some(Len(procs'))
          \/ Has(Spawned.log, "SIGKILL")
      ]_vars

\* C37's statement for PythonEbpfProfiler.start(); under SpecEbpf it fails
\* in the same way, on the exit by StopEventSetException.
EbpfStartOwnsOrKills ==
    [][(CalledStart /\ ebpf'.op = "start") =>
          \/ ebpf'.process = Some(Len(procs'))
          \/ Has(Spawned.log, "SIGKILL")
      ]_vars

\* ================================================ PerfProcess, any caller
\* PerfProcess's public methods called in any order.  Here readings is the
\* history of _collected_rss_values: the child each of its entries was read
\* from.
ApiCommit(name, W) ==
    /\ Len(W.procs) <= MaxSpawn
    /\ perf' = W.perf
    /\ procs' = W.procs
    /\ _processes' = W.reg
    /\ lastOp' = [name |-> name, log |-> W.log, exc |-> W.exc, check |-> W.check,
                  owned |-> perf._process, n |-> 0, first |-> <<>>]
    /\ orch' = "api"
    /\ readings' =
         IF W.perf._collected_rss_values = <<>> THEN <<>>
         ELSE IF Len(W.perf._collected_rss_values) > Len(perf._collected_rss_values)
         THEN Append(readings, perf._process[1])
         ELSE readings
    /\ UNCHANGED <<now, stop_event, runVars, sigVars, waitVars, rotVars, ebpfVars,
                   metaVars, agentVars>>

ApiStart ==
    /\ orch = "api"
    /\ \E outcome \in StartOutcomes, hung \in BOOLEAN :
          ApiCommit("start", PerfStart(World, outcome, hung, now))

\* stop() returns once the child has exited.
ApiStop ==
    /\ orch = "api"
    /\ PerfStop(World).exc = None
    /\ ApiCommit("stop", PerfStop(World))

ApiRestart ==
    /\ orch = "api"
    /\ PerfStop(World).exc = None
    /\ \E outcome \in StartOutcomes, hung \in BOOLEAN :
          ApiCommit("restart", PerfRestart(World, outcome, hung, now))

ApiRestartIfNotRunning ==
    /\ orch = "api"
    /\ \E outcome \in StartOutcomes, hung \in BOOLEAN :
          /\ restart_if_not_running(World, outcome, hung, now).exc # Some("Blocked")
          /\ ApiCommit("restart_if_not_running",
                       restart_if_not_running(World, outcome, hung, now))

\* restart_if_rss_exceeded on a supervisor that owns a child whose RSS can be
\* read (the assertion of line 152 and Process(pid) of line 153 pass).
ApiRestartIfRssExceeded ==
    /\ orch = "api"
    /\ perf._process # None
    /\ Running(procs[perf._process[1]])
    /\ \E rss \in RssValues, outcome \in StartOutcomes, hung \in BOOLEAN :
          /\ restart_if_rss_exceeded(World, rss, outcome, hung, now).exc # Some("Blocked")
          /\ ApiCommit("restart_if_rss_exceeded",
                       restart_if_rss_exceeded(World, rss, outcome, hung, now))

InitPerfApi ==
    /\ now = 0
    /\ stop_event = FALSE
    /\ IdleSignal /\ IdleChildren /\ IdleRun /\ IdleWait
    /\ perf = NewPerfProcess /\ orch = "api" /\ lastOp = NoOp /\ readings = <<>>
    /\ IdleOthers

NextPerfApi ==
    \/ ApiStart
    \/ ApiStop
    \/ ApiRestart
    \/ ApiRestartIfNotRunning
    \/ ApiRestartIfRssExceeded
    \/ PerfTick
    \/ \E pid \in 1..MaxSpawn : ChildExits(pid, 1)
    \/ SetStop

SpecPerfApi == InitPerfApi /\ [][NextPerfApi]_vars

BaselineSet == perf._baseline_rss # None

\* C38: a set baseline was computed from readings of the owned child only;
\* at most _BASELINE_COLLECTION_COUNT readings are ever collected; the
\* baseline is set only when exactly that many were.
C38_BaselineOfOwnedChild ==
    /\ Len(perf._collected_rss_values) <= _BASELINE_COLLECTION_COUNT
    /\ BaselineSet => Len(perf._collected_rss_values) = _BASELINE_COLLECTION_COUNT
    /\ (BaselineSet /\ perf._process # None) =>
          \A i \in 1..Len(readings) : readings[i] = perf._process[1]

\* What holds under any sequence of calls: the two counts, and that the
\* baseline is the mean of the collected readings.
BaselineCounts ==
    /\ Len(perf._collected_rss_values) <= _BASELINE_COLLECTION_COUNT
    /\ Len(readings) = Len(perf._collected_rss_values)
    /\ BaselineSet =>
          /\ Len(perf._collected_rss_values) = _BASELINE_COLLECTION_COUNT
          /\ perf._baseline_rss = BaselineOf(perf._collected_rss_values)

\* ================================================== rotations and restarts
\* The cycles of the supervisor's caller, one after another: switch_output
\* and wait_and_script (the rotation above), then restart_if_not_running and
\* restart_if_rss_exceeded before the next rotation.  An exception of a
\* restart ends the cycles followed here, and the children spawned here
\* answer SIGTERM.
\*
\* A supervisor whose child has been checked three times already, each
\* reading 412 MiB.
CheckedPerf ==
    [StartedPerf EXCEPT !._baseline_rss = Some(412 * MiB),
                        !._collected_rss_values = <<412 * MiB, 412 * MiB, 412 * MiB>>]

\* The state after a supervisor operation of a cycle that ends in world W.
PerfCycleOp(name, W) ==
    /\ Len(W.procs) <= MaxSpawn
    /\ perf' = W.perf
    /\ procs' = W.procs
    /\ _processes' = W.reg
    /\ lastOp' = [name |-> name, log |-> W.log, exc |-> W.exc, check |-> W.check,
                  owned |-> perf._process,
                  n |-> IF W.check = None THEN 0 ELSE Len(readings) + 1,
                  first |-> IF W.check = None THEN <<>> ELSE FirstReadings(W.check[1].rss)]
    /\ orch' = AfterOp(name, W)
    /\ readings' = IF W.perf._process # perf._process THEN <<>>
                   ELSE IF W.check # None THEN FirstReadings(W.check[1].rss)
                   ELSE readings
    /\ UNCHANGED <<now, stop_event, files, runVars, sigVars, waitVars, ebpfVars,
                   metaVars, agentVars>>

\* restart_if_not_running() after the rotation, however that one ended short
\* of the stop exception.
CycleRestartIfNotRunning ==
    /\ rot.pc = "done"
    /\ rot.result # Some("StopEventSetException")
    /\ \E outcome \in StartOutcomes :
          LET W == restart_if_not_running(World, outcome, FALSE, now)
          IN /\ PerfCycleOp("restart_if_not_running", W)
             /\ rot' = [rot EXCEPT !.pc = IF W.exc = None THEN "health" ELSE "ended"]

\* restart_if_rss_exceeded(), then the next rotation.
CycleRestartIfRssExceeded ==
    /\ rot.pc = "health"
    /\ perf._process # None
    /\ \E rss \in (IF Running(procs[perf._process[1]]) THEN RssValues ELSE {0}),
          outcome \in StartOutcomes :
          LET W == restart_if_rss_exceeded(World, rss, outcome, FALSE, now)
          IN /\ PerfCycleOp("restart_if_rss_exceeded", W)
             /\ rot' = IF W.exc = None /\ rot.cycle < MaxRotations
                       THEN NewRotation(rot.inject_jit, rot.cycle + 1, rot)
                       ELSE [rot EXCEPT !.pc = "ended"]

InitPerfCycle ==
    /\ now = 0
    /\ stop_event = FALSE
    /\ IdleSignal /\ IdleRun /\ IdleWait /\ IdleEbpf /\ IdleMeta /\ IdleAgent
    /\ procs = <<NewChild(FALSE)>> /\ _processes = <<1>>
    /\ \/ perf = StartedPerf /\ readings = <<>>
       \/ perf = CheckedPerf /\ readings = CheckedPerf._collected_rss_values
    /\ orch = "running" /\ lastOp = StartedOp
    /\ files = {}
    /\ rot = NewRotation(FALSE, 1, NoPerfFiles)

NextPerfCycle ==
    \/ SwitchOutputDelete
    \/ SwitchOutputSignal
    \/ PerfSwitches(TRUE)
    \/ PerfRemovesOld
    \/ RotWaitFound
    \/ \E kind \in {"TimeoutError", "StopEventSetException"} : RotWaitFails(kind)
    \/ RotGlob
    \/ RotDedupe
    \/ RotWaitHandler
    \/ \E ok \in BOOLEAN : RotScript(ok)
    \/ RotFinally
    \/ CycleRestartIfNotRunning
    \/ CycleRestartIfRssExceeded
    \/ PerfTick
    \/ \E pid \in 1..MaxSpawn : ChildExits(pid, 1)
    \/ SetStop

SpecPerfCycle == InitPerfCycle /\ [][NextPerfCycle]_vars

\* ------------------------------------- properties of rotations and restarts
\* The rotation's wait failed and the handler has run.
WaitFailed == rot.pc \in {"done", "health"} /\ rot.perf_data = None /\ rot.exc # None
RestartIfNotRunningStep == rot.pc = "done" /\ rot'.pc # "done"
NewChildSpawned == Len(procs') > Len(procs)
ByGrowth == lastOp'.check # None /\ lastOp'.check[1].evaluated /\ lastOp'.check[1].growth_based
ByTimeAndMemory == lastOp'.check # None /\ lastOp'.check[1].evaluated /\ lastOp'.check[1].time_based
ByCrash == RestartIfNotRunningStep /\ ~is_running(World)
AfterRotationTimeout == rot.result = Some("TimeoutError")

\* The handler drops the reference to a child that has exited and keeps the
\* reference to one that is alive.
HandlerDropsDeadChild ==
    /\ WaitFailed /\ rot.pc = "done" /\ rot.died => perf._process = None /\ ~is_running(World)
    /\ WaitFailed /\ rot.pc = "done" /\ ~rot.died => perf._process # None

\* After a dropped reference the next restart_if_not_running spawns a child;
\* with the owned child alive it changes nothing.
RestartIfNotRunningActs ==
    /\ RestartIfNotRunningStep /\ WaitFailed /\ rot.died => NewChildSpawned
    /\ RestartIfNotRunningStep /\ is_running(World) =>
          perf' = perf /\ procs' = procs /\ _processes' = _processes

ReadFailed == MetaDone /\ meta.read /\ ~WellFormed(meta.file)
BothEmpty == meta.result = Some(ExternalMetadata(EmptyMap, EmptyDict))

\* C40: read_external_metadata returns nothing partially parsed: when
\* reading or parsing a fresh file fails (unreadable, invalid JSON, no JSON
\* object, an application key that is no integer) static and application are
\* both empty and nothing is raised; what it returns otherwise holds the
\* file's static and every PID of the file; only a stale and a missing file
\* raise.
C40_NoPartialMetadata ==
    MetaDone =>
        /\ ReadFailed => BothEmpty /\ meta.exc = None
        /\ meta.result # None /\ ~BothEmpty =>
              /\ WellFormed(meta.file)
              /\ meta.result[1].static = Get(meta.file.static, EmptyMap)
              /\ DOMAIN meta.result[1].application = {PidOf(i) : i \in 1..Len(FileMembers)}
        /\ (meta.exc = None) <=> (meta.result # None)
        /\ meta.exc # None =>
              \/ meta.exc = Some("ExternalMetadataStaleError") /\ meta.exists /\ MetaAge > 300
              \/ meta.exc = Some("FileNotFoundError") /\ ~meta.exists

\* A fresh file with a "static" section and an integer key followed by a key
\* that is no integer came back as two empty maps.
C40_Witness ==
    /\ ReadFailed /\ BothEmpty /\ meta.exc = None
    /\ meta.file.json = "object"
    /\ meta.file.static # None /\ Get(meta.file.static, EmptyMap) # EmptyMap
    /\ Len(FileMembers) = 2
    /\ int(FileMembers[1][1]) # None /\ int(FileMembers[2][1]) = None

====
